---- MODULE Spec2Model ----
(***************************************************************************)
(* A model of stravagonuts: the web endpoints that start background jobs   *)
(* (app.py), the Strava sync (strava_service.py), the attribution of GPS   *)
(* tracks to LAU and NUTS regions (map_generator.py) and the SQLite store  *)
(* (database.py).                                                          *)
(*                                                                         *)
(* Tables with a PRIMARY KEY that the code fills with INSERT OR IGNORE are  *)
(* bags of rows, so that a duplicate row is something the model can hold.  *)
(* Tables that are written with INSERT OR REPLACE / upsert are functions    *)
(* from the key to the row.                                                *)
(***************************************************************************)
EXTENDS Integers, Sequences, FiniteSets, Bags, TLC

VARIABLES
    processing_status,   \* app.py: the module-global status record
    threads,             \* the job threads started by the endpoints, by number
    http,                \* the requests answered so far and the last response
    remote,              \* the activities that exist at Strava
    activities,          \* user.db: activities, id -> row
    activity_lau,        \* user.db: activity_lau, a bag of <<activity_id, lau_id>>
    activity_nuts,       \* user.db: activity_nuts, a bag of <<activity_id, nuts_code>>
    lau_first_visited,   \* user.db: lau_first_visited, lau_id -> first_visited
    nuts_first_visited,  \* user.db: nuts_first_visited, nuts_code -> first_visited
    lau_regions,         \* regions.db: lau_regions, the set of lau_id present
    nuts_regions,        \* regions.db: nuts_regions, the set of nuts_code present
    lau_nuts_mapping,    \* regions.db: lau_nuts_mapping, lau_id -> the four codes
    attr_log,            \* SpecAttr: the activity_ids of each generate_map run so far
    activity_queue,      \* fetch_and_process_parallel: the activities waiting for streams
    stop_event,          \* fetch_and_process_parallel: the producer has finished
    producer,            \* fetch_and_process_parallel: where the producer is
    consumer,            \* fetch_and_process_parallel: where stream_consumer is
    sync,                \* SpecPar: what the running sync started from and met
    startup,             \* run.py: the runs of main() so far and how the last one went
    faults,              \* SpecFault: what failed in the last generate_map run
    auth                 \* SpecAuth: the requests and refreshes of the last streams fetch

vars == <<processing_status, threads, http, remote, activities, activity_lau,
          activity_nuts, lau_first_visited, nuts_first_visited, lau_regions,
          nuts_regions, lau_nuts_mapping, attr_log, activity_queue, stop_event,
          producer, consumer, sync, startup, faults, auth>>

aux == <<startup, faults, auth>>

parallel == <<activity_queue, stop_event, producer, consumer, sync>>

db_user == <<activities, activity_lau, activity_nuts, lau_first_visited,
             nuts_first_visited>>

db_regions == <<lau_regions, nuts_regions, lau_nuts_mapping>>

(***************************************************************************)
(* Bounds of the model.                                                    *)
(***************************************************************************)
\* How many requests to the job endpoints a behaviour holds.
MaxRequests == 2

\* How many of the activities of StravaData exist (ids 1..NumActs).
NumActs == 3

\* The page size of the activity list (per_page, 200 in the code).
PerPage == 1

\* How many generate_map runs a behaviour of SpecAttr holds.
MaxLog == 2

ActivityIds == 1..NumActs

\* SQL NULL where a date is expected (a LEFT JOIN without a partner row).
\* Dates are positive, and SQLite sorts NULL before every value.
NULL == 0

(***************************************************************************)
(* The reference data: the LAU shapefile (rows of the GeoDataFrame `lau`,  *)
(* in EPSG:4326, x = longitude, y = latitude), the NUTS catalog and the    *)
(* LAU-NUTS cross-reference. Geometries are axis-parallel rectangles on    *)
(* an integer grid. M4 lies outside the cross-reference (a country the     *)
(* EU-27 workbook has no sheet for).                                       *)
(***************************************************************************)
Rect(minx, miny, maxx, maxy) ==
    [minx |-> minx, miny |-> miny, maxx |-> maxx, maxy |-> maxy]

LauGdf ==
    << [LAU_ID |-> "M1", CNTR_CODE |-> "X", geometry |-> Rect(0, 0, 1, 1)],
       [LAU_ID |-> "M2", CNTR_CODE |-> "X", geometry |-> Rect(2, 0, 3, 1)],
       [LAU_ID |-> "M3", CNTR_CODE |-> "Y", geometry |-> Rect(0, 3, 1, 4)],
       [LAU_ID |-> "M4", CNTR_CODE |-> "Z", geometry |-> Rect(2, 3, 3, 4)] >>

LauIds == {LauGdf[i].LAU_ID : i \in DOMAIN LauGdf}

LauCountry ==
    [m \in LauIds |-> LET i == CHOOSE j \in DOMAIN LauGdf : LauGdf[j].LAU_ID = m
                      IN  LauGdf[i].CNTR_CODE]

\* regions.nuts_regions: nuts_code -> (level, country_code). X125 is a region
\* no track of StravaData reaches.
NutsGdf ==
    [ X    |-> [level |-> 0, country_code |-> "X"],
      X1   |-> [level |-> 1, country_code |-> "X"],
      X12  |-> [level |-> 2, country_code |-> "X"],
      X123 |-> [level |-> 3, country_code |-> "X"],
      X124 |-> [level |-> 3, country_code |-> "X"],
      X125 |-> [level |-> 3, country_code |-> "X"],
      Y    |-> [level |-> 0, country_code |-> "Y"],
      Y1   |-> [level |-> 1, country_code |-> "Y"],
      Y12  |-> [level |-> 2, country_code |-> "Y"],
      Y123 |-> [level |-> 3, country_code |-> "Y"] ]

NutsCodes == DOMAIN NutsGdf

Levels == {0, 1, 2, 3}

Countries == {"X", "Y", "Z"}

\* regions.lau_nuts_mapping as create_lau_nuts_mappings leaves it: one row per
\* LAU of the cross-reference, <<nuts0, nuts1, nuts2, nuts3>> (index level + 1).
LauNutsXref ==
    [ M1 |-> <<"X", "X1", "X12", "X123">>,
      M2 |-> <<"X", "X1", "X12", "X124">>,
      M3 |-> <<"Y", "Y1", "Y12", "Y123">> ]

(***************************************************************************)
(* The activity source. StravaData[a] is what Strava holds for activity a: *)
(* its start_date (a day number; the code compares ISO strings, which      *)
(* order the same way) and the answer of the streams endpoint: <<>> for a  *)
(* 404, else <<streams>> with streams the key_by_type dictionary, whose    *)
(* latlng.data is a list of <<lat, lon>> pairs. Tracks run along the grid. *)
(*   1: stays in M1, its bounding box touches M2       2: crosses M1, M2   *)
(*   3: crosses M3 and M4      4: a single point       5: no streams (404) *)
(*   6: streams without a latlng key                                       *)
(***************************************************************************)
LatLng(points) == [latlng |-> [data |-> points], time |-> [data |-> <<>>]]

StravaData ==
    << [start_date |-> 2, streams |-> <<LatLng(<< <<1, 1>>, <<2, 1>>, <<2, 2>> >>)>>],
       [start_date |-> 1, streams |-> <<LatLng(<< <<0, 1>>, <<0, 2>> >>)>>],
       [start_date |-> 3, streams |-> <<LatLng(<< <<4, 1>>, <<4, 2>> >>)>>],
       [start_date |-> 4, streams |-> <<LatLng(<< <<0, 0>> >>)>>],
       [start_date |-> 5, streams |-> <<>>],
       [start_date |-> 6, streams |-> <<[time |-> [data |-> <<>>]]>>] >>

Min(S) == CHOOSE x \in S : \A y \in S : x <= y

Max(S) == CHOOSE x \in S : \A y \in S : x >= y

\* The elements of a set of integers as an ascending sequence.
RECURSIVE SortedSeq(_)
SortedSeq(S) ==
    IF S = {} THEN <<>> ELSE <<Min(S)>> \o SortedSeq(S \ {Min(S)})

Range(f) == {f[i] : i \in DOMAIN f}

(***************************************************************************)
(* json.dumps / json.loads of a streams dictionary: the column holds text, *)
(* the program works on the decoded value.                                 *)
(***************************************************************************)
json_dumps(value) == [json |-> value]

json_loads(text) == text.json

(***************************************************************************)
(* map_generator.py: geometry.                                             *)
(***************************************************************************)
\* None for "no line"; a LineString has at least two coordinates.
None == <<>>

\* A variant that keeps (lat, lon) as (x, y).
streams_to_linestring_noswap(streams) ==
    IF "latlng" \notin DOMAIN streams \/ streams.latlng.data = <<>>
    THEN None
    ELSE LET latlng == streams.latlng.data
             coords == [i \in DOMAIN latlng |-> <<latlng[i][1], latlng[i][2]>>]
         IN  IF Len(coords) < 2 THEN None ELSE coords

\* A variant without the test for fewer than two coordinates.
streams_to_linestring_anylen(streams) ==
    IF "latlng" \notin DOMAIN streams \/ streams.latlng.data = <<>>
    THEN None
    ELSE LET latlng == streams.latlng.data
         IN  [i \in DOMAIN latlng |-> <<latlng[i][2], latlng[i][1]>>]

\* streams_to_linestring: (lat, lon) pairs become (x, y) = (lon, lat).
streams_to_linestring(streams) ==
    IF "latlng" \notin DOMAIN streams \/ streams.latlng.data = <<>>
    THEN None
    ELSE LET latlng == streams.latlng.data
             coords == [i \in DOMAIN latlng |-> <<latlng[i][2], latlng[i][1]>>]
         IN  IF Len(coords) < 2 THEN None ELSE coords

\* The bounds (minx, miny, maxx, maxy) of a set of coordinates.
BoundsOf(points) ==
    Rect(Min({p[1] : p \in points}), Min({p[2] : p \in points}),
         Max({p[1] : p \in points}), Max({p[2] : p \in points}))

\* linestring.bounds
LineBounds(linestring) == BoundsOf(Range(linestring))

\* MultiLineString(linestrings).bounds
MultiLineBounds(linestrings) ==
    BoundsOf(UNION {Range(linestrings[i]) : i \in DOMAIN linestrings})

\* Two closed boxes share a point.
BoxesIntersect(a, b) ==
    /\ a.minx <= b.maxx /\ b.minx <= a.maxx
    /\ a.miny <= b.maxy /\ b.miny <= a.maxy

\* gdf.sindex.intersection(bounds): the rows of `rows` whose box meets bounds.
sindex_intersection(rows, bounds) ==
    {i \in rows : BoxesIntersect(LauGdf[i].geometry, bounds)}

\* geometry.intersects(linestring): some segment of the line meets the
\* rectangle. A segment along the grid is its own bounding box.
Intersects(geometry, linestring) ==
    \E k \in 1..(Len(linestring) - 1) :
        BoxesIntersect(geometry, BoundsOf({linestring[k], linestring[k + 1]}))

\* A variant that takes the candidates from the bounds of the first line only.
find_overlapping_lau_firstbounds(linestrings) ==
    LET candidates == sindex_intersection(DOMAIN LauGdf, LineBounds(linestrings[1]))
        map == [line_idx \in DOMAIN linestrings |->
                  LET local == sindex_intersection(candidates,
                                                   LineBounds(linestrings[line_idx]))
                  IN  {i \in local : Intersects(LauGdf[i].geometry,
                                                linestrings[line_idx])}]
    IN  [overlapping |-> UNION Range(map), activity_lau_map |-> map]

\* find_overlapping_lau(lau, linestrings), lau being LauGdf: the rows that
\* overlap any line, and per line (1-based here) the rows it overlaps.
find_overlapping_lau(linestrings) ==
    LET candidates == sindex_intersection(DOMAIN LauGdf, MultiLineBounds(linestrings))
        map == [line_idx \in DOMAIN linestrings |->
                  LET local == sindex_intersection(candidates,
                                                   LineBounds(linestrings[line_idx]))
                  IN  {i \in local : Intersects(LauGdf[i].geometry,
                                                linestrings[line_idx])}]
    IN  [overlapping |-> UNION Range(map), activity_lau_map |-> map]

(***************************************************************************)
(* database.py: the statements, as functions of the tables they touch.     *)
(* An activities row is [start_date, has_streams, streams_fetched,         *)
(* streams_data]; streams_data is <<>> for NULL, else <<text>>. The        *)
(* columns name, type and distance are written like start_date and read    *)
(* by nothing the model covers.                                            *)
(***************************************************************************)
\* The rows a table holds, whatever their number of copies.
Rows(table) == BagToSet(table)

\* How many copies of row the table holds.
Count(table, row) == CopiesIn(row, table)

\* A plain INSERT into a table without a key.
Insert(table, row) == table (+) SetToBag({row})

\* INSERT OR IGNORE into a table whose PRIMARY KEY is the whole row.
InsertOrIgnore(table, row) ==
    IF BagIn(row, table) THEN table ELSE table (+) SetToBag({row})

\* f with key k set to v, k new or not.
Upsert(f, k, v) == [x \in DOMAIN f \cup {k} |-> IF x = k THEN v ELSE f[x]]

\* save_activity: INSERT ... ON CONFLICT(id) DO UPDATE of the metadata columns;
\* a new row gets the column defaults.
save_activity(acts, activity_id, start_date) ==
    IF activity_id \in DOMAIN acts
    THEN [acts EXCEPT ![activity_id].start_date = start_date]
    ELSE Upsert(acts, activity_id,
                [start_date |-> start_date, has_streams |-> 0,
                 streams_fetched |-> 0, streams_data |-> <<>>])

\* save_activity_streams: UPDATE ... WHERE id = ?
save_activity_streams(acts, activity_id, streams_data) ==
    IF activity_id \in DOMAIN acts
    THEN [acts EXCEPT ![activity_id].has_streams = 1,
                      ![activity_id].streams_fetched = 1,
                      ![activity_id].streams_data = <<json_dumps(streams_data)>>]
    ELSE acts

\* mark_activity_no_streams: UPDATE ... WHERE id = ?
mark_activity_no_streams(acts, activity_id) ==
    IF activity_id \in DOMAIN acts
    THEN [acts EXCEPT ![activity_id].has_streams = 0,
                      ![activity_id].streams_fetched = 1]
    ELSE acts

\* get_activities_without_streams: the ids with streams_fetched = 0.
get_activities_without_streams(acts) ==
    {a \in DOMAIN acts : acts[a].streams_fetched = 0}

\* get_all_activities_with_streams: id -> decoded streams_data (<<>> when the
\* column is NULL) of the rows with has_streams = 1.
get_all_activities_with_streams(acts) ==
    LET ids == {a \in DOMAIN acts : acts[a].has_streams = 1}
    IN  [a \in ids |-> IF acts[a].streams_data # <<>>
                       THEN <<json_loads(acts[a].streams_data[1])>>
                       ELSE <<>>]

\* get_last_activity_date: MAX(start_date), None on an empty table.
get_last_activity_date(acts) ==
    IF DOMAIN acts = {} THEN None
    ELSE <<Max({acts[a].start_date : a \in DOMAIN acts})>>

\* A variant that deletes the rows of the table before its INSERT.
link_activity_lau_replace(table, activity_id, lau_id) ==
    SetToBag({<<activity_id, lau_id>>})

\* A variant with a plain INSERT.
link_activity_lau_plain(table, activity_id, lau_id) ==
    Insert(table, <<activity_id, lau_id>>)

\* link_activity_lau: INSERT OR IGNORE INTO activity_lau.
link_activity_lau(table, activity_id, lau_id) ==
    InsertOrIgnore(table, <<activity_id, lau_id>>)

\* A variant with a plain INSERT.
link_activity_nuts_plain(table, activity_id, nuts_code) ==
    Insert(table, <<activity_id, nuts_code>>)

\* link_activity_nuts: INSERT OR IGNORE INTO activity_nuts.
link_activity_nuts(table, activity_id, nuts_code) ==
    InsertOrIgnore(table, <<activity_id, nuts_code>>)

\* The start dates the JOIN of a link table with activities gives region r.
JoinedDates(links, acts, r) ==
    {acts[row[1]].start_date : row \in {x \in Rows(links) : x[2] = r /\ x[1] \in DOMAIN acts}}

\* The regions that JOIN yields a group for.
JoinedRegions(links, acts) ==
    {row[2] : row \in {x \in Rows(links) : x[1] \in DOMAIN acts}}

\* SELECT <key>, MIN(start_date) FROM <links> JOIN activities GROUP BY <key>
MinStartDateByRegion(links, acts) ==
    [r \in JoinedRegions(links, acts) |-> Min(JoinedDates(links, acts, r))]

\* INSERT OR REPLACE INTO a table keyed by its first column, of all of rows.
InsertOrReplaceAll(table, rows) ==
    [k \in DOMAIN table \cup DOMAIN rows |->
        IF k \in DOMAIN rows THEN rows[k] ELSE table[k]]

\* A variant with MAX for MIN.
update_lau_first_visited_dates_max(first_visited, links, acts) ==
    InsertOrReplaceAll(first_visited,
        [r \in JoinedRegions(links, acts) |-> Max(JoinedDates(links, acts, r))])

\* update_lau_first_visited_dates
update_lau_first_visited_dates(first_visited, links, acts) ==
    InsertOrReplaceAll(first_visited, MinStartDateByRegion(links, acts))

\* update_nuts_first_visited_dates
update_nuts_first_visited_dates(first_visited, links, acts) ==
    InsertOrReplaceAll(first_visited, MinStartDateByRegion(links, acts))

(***************************************************************************)
(* database.py: the visited-region queries. Each returns the list of its   *)
(* result rows [code, country_code, first_visited, activity_count]; the    *)
(* catalog columns of a region are those of the reference data.            *)
(***************************************************************************)
\* ORDER BY first_visited ASC, a variant.
RECURSIVE OrderByFirstVisitedAsc(_)
OrderByFirstVisitedAsc(rows) ==
    IF rows = {} THEN <<>>
    ELSE LET r == CHOOSE x \in rows : \A y \in rows : x.first_visited <= y.first_visited
         IN  <<r>> \o OrderByFirstVisitedAsc(rows \ {r})

\* ORDER BY first_visited DESC: rows with the same first_visited come in an
\* order SQLite leaves open.
RECURSIVE OrderByFirstVisitedDesc(_)
OrderByFirstVisitedDesc(rows) ==
    IF rows = {} THEN <<>>
    ELSE LET r == CHOOSE x \in rows : \A y \in rows : x.first_visited >= y.first_visited
         IN  <<r>> \o OrderByFirstVisitedDesc(rows \ {r})

\* COUNT(DISTINCT activity_id) of the group of region r.
ActivityCount(links, r) == Cardinality({row[1] : row \in {x \in Rows(links) : x[2] = r}})

\* The LEFT JOIN with a first_visited table.
FirstVisitedOf(first_visited, r) ==
    IF r \in DOMAIN first_visited THEN first_visited[r] ELSE NULL

LauRow(r) ==
    [code |-> r, country_code |-> LauCountry[r],
     first_visited |-> FirstVisitedOf(lau_first_visited, r),
     activity_count |-> ActivityCount(activity_lau, r)]

NutsRow(r) ==
    [code |-> r, country_code |-> NutsGdf[r].country_code,
     first_visited |-> FirstVisitedOf(nuts_first_visited, r),
     activity_count |-> ActivityCount(activity_nuts, r)]

\* A variant with a LEFT JOIN of activity_lau.
get_all_lau_regions_leftjoin ==
    OrderByFirstVisitedDesc({LauRow(r) : r \in lau_regions})

\* A variant with ORDER BY ... ASC.
get_all_lau_regions_asc ==
    OrderByFirstVisitedAsc(
        {LauRow(r) : r \in {x \in lau_regions : \E row \in Rows(activity_lau) : row[2] = x}})

\* get_all_lau_regions: lau_regions INNER JOIN activity_lau, grouped by lau_id.
get_all_lau_regions ==
    OrderByFirstVisitedDesc(
        {LauRow(r) : r \in {x \in lau_regions : \E row \in Rows(activity_lau) : row[2] = x}})

\* get_all_lau_regions_filtered(country_code)
get_all_lau_regions_filtered(country_code) ==
    OrderByFirstVisitedDesc(
        {LauRow(r) : r \in {x \in lau_regions :
                              /\ \E row \in Rows(activity_lau) : row[2] = x
                              /\ LauCountry[x] = country_code}})

\* get_nuts_regions_by_level(level)
get_nuts_regions_by_level(level) ==
    OrderByFirstVisitedDesc(
        {NutsRow(r) : r \in {x \in nuts_regions :
                               /\ \E row \in Rows(activity_nuts) : row[2] = x
                               /\ NutsGdf[x].level = level}})

\* get_nuts_regions_by_level_filtered(level, country_code)
get_nuts_regions_by_level_filtered(level, country_code) ==
    OrderByFirstVisitedDesc(
        {NutsRow(r) : r \in {x \in nuts_regions :
                               /\ \E row \in Rows(activity_nuts) : row[2] = x
                               /\ NutsGdf[x].level = level
                               /\ NutsGdf[x].country_code = country_code}})

\* The answer of get_total_regions_count; NoCountry stands for the
\* country_code=None of an unfiltered call.
NoCountry == "None"

get_total_regions_count(country_code) ==
    LET visited_lau ==
            IF country_code # NoCountry
            THEN Cardinality({x \in lau_regions :
                                /\ \E row \in Rows(activity_lau) : row[2] = x
                                /\ LauCountry[x] = country_code})
            ELSE Cardinality({row[2] : row \in Rows(activity_lau)})
        total_lau ==
            IF country_code # NoCountry
            THEN Cardinality({x \in lau_regions : LauCountry[x] = country_code})
            ELSE Cardinality(lau_regions)
        visited_nuts(level) ==
            IF country_code # NoCountry
            THEN Cardinality({x \in nuts_regions :
                                /\ \E row \in Rows(activity_nuts) : row[2] = x
                                /\ NutsGdf[x].level = level
                                /\ NutsGdf[x].country_code = country_code})
            ELSE Cardinality({row[2] : row \in
                                {r \in Rows(activity_nuts) :
                                    r[2] \in {x \in nuts_regions :
                                                 NutsGdf[x].level = level}}})
        total_nuts(level) ==
            IF country_code # NoCountry
            THEN Cardinality({x \in nuts_regions :
                                /\ NutsGdf[x].level = level
                                /\ NutsGdf[x].country_code = country_code})
            ELSE Cardinality({x \in nuts_regions : NutsGdf[x].level = level})
    IN  [lau  |-> [visited |-> visited_lau, total |-> total_lau],
         nuts |-> [level \in Levels |->
                     [visited |-> visited_nuts(level), total |-> total_nuts(level)]]]

\* clear_all_data: DELETE FROM activity_lau, regions.lau_regions, activities
\* (and metadata, which nothing else touches). What it returns here are the
\* three tables after it.
clear_all_data ==
    [activity_lau |-> EmptyBag, lau_regions |-> {}, activities |-> <<>>]

\* clear_activities (reset-activities-only): empties activities and every
\* link table, forgets every first_visited, leaves the region catalog alone.
clear_activities ==
    [activities |-> <<>>, activity_lau |-> EmptyBag, activity_nuts |-> EmptyBag,
     lau_first_visited |-> <<>>, nuts_first_visited |-> <<>>]

(***************************************************************************)
(* reset.py, the command-line reset of the single-file database            *)
(* (src/database.py), where first_visited is a column of lau_regions and   *)
(* nuts_regions. LegacyDb is the store of the model in that layout: a      *)
(* region table is a function from the region to its first_visited.        *)
(***************************************************************************)
LegacyDb ==
    [activities |-> activities,
     activity_lau |-> activity_lau,
     activity_nuts |-> activity_nuts,
     lau_regions |-> [r \in lau_regions |-> FirstVisitedOf(lau_first_visited, r)],
     nuts_regions |-> [r \in nuts_regions |-> FirstVisitedOf(nuts_first_visited, r)],
     lau_nuts_mapping |-> lau_nuts_mapping]

\* A variant without DELETE FROM activity_nuts.
clear_user_data_from_db_keepnuts(db) ==
    [db EXCEPT !.activities = <<>>,
               !.activity_lau = EmptyBag,
               !.lau_regions = [r \in DOMAIN db.lau_regions |-> NULL],
               !.nuts_regions = [r \in DOMAIN db.nuts_regions |-> NULL]]

\* clear_user_data_from_db: DELETE FROM activities, activity_lau,
\* activity_nuts (and settings, metadata); UPDATE lau_regions / nuts_regions
\* SET first_visited = NULL.
clear_user_data_from_db(db) ==
    [db EXCEPT !.activities = <<>>,
               !.activity_lau = EmptyBag,
               !.activity_nuts = EmptyBag,
               !.lau_regions = [r \in DOMAIN db.lau_regions |-> NULL],
               !.nuts_regions = [r \in DOMAIN db.nuts_regions |-> NULL]]

\* mark_activities_processed_for_regions(activity_ids): changes none of the
\* columns modelled here.
mark_activities_processed_for_regions(acts, activity_ids) == acts

(***************************************************************************)
(* map_generator.py: the attribution part of generate_map.                 *)
(***************************************************************************)
\* A loop that calls link_activity_lau for each pair of a set.
RECURSIVE LinkAllLau(_, _)
LinkAllLau(table, pairs) ==
    IF pairs = {} THEN table
    ELSE LET p == CHOOSE x \in pairs : TRUE
         IN  LinkAllLau(link_activity_lau(table, p[1], p[2]), pairs \ {p})

\* A loop that calls link_activity_nuts for each pair of a set.
RECURSIVE LinkAllNuts(_, _)
LinkAllNuts(table, pairs) ==
    IF pairs = {} THEN table
    ELSE LET p == CHOOSE x \in pairs : TRUE
         IN  LinkAllNuts(link_activity_nuts(table, p[1], p[2]), pairs \ {p})

\* The (activity_id, LAU_ID) pairs activity_lau_map stands for.
LauPairs(activity_ids, activity_lau_map) ==
    UNION {{<<activity_ids[i], LauGdf[j].LAU_ID>> : j \in activity_lau_map[i]} :
             i \in DOMAIN activity_lau_map}

\* A variant that leaves out level 0.
activity_nuts_links_nolevel0(activity_ids, activity_lau_map, lau_to_nuts) ==
    {<<pair[1], lau_to_nuts[pair[2]][level + 1]>> :
        pair \in {x \in LauPairs(activity_ids, activity_lau_map) :
                    x[2] \in DOMAIN lau_to_nuts},
        level \in Levels \ {0}}

\* process_nuts_regions: activity_nuts_links, all levels together: for every
\* LAU of an activity that lau_to_nuts knows, its code at each level.
activity_nuts_links(activity_ids, activity_lau_map, lau_to_nuts) ==
    {<<pair[1], lau_to_nuts[pair[2]][level + 1]>> :
        pair \in {x \in LauPairs(activity_ids, activity_lau_map) :
                    x[2] \in DOMAIN lau_to_nuts},
        level \in Levels}

\* process_nuts_regions(activity_ids, activity_lau_map, lau_gdf): the tables
\* activity_nuts and nuts_first_visited after it. It returns early, before
\* any write, when lau_nuts_mapping is empty.
process_nuts_regions(activity_ids, activity_lau_map, lau_to_nuts, links, first_visited, acts) ==
    IF DOMAIN lau_to_nuts = {}
    THEN [activity_nuts |-> links, nuts_first_visited |-> first_visited]
    ELSE LET linked == LinkAllNuts(links,
                           activity_nuts_links(activity_ids, activity_lau_map, lau_to_nuts))
         IN  [activity_nuts |-> linked,
              nuts_first_visited |->
                  update_nuts_first_visited_dates(first_visited, linked, acts)]

\* generate_map, lines 181-205: the ids of the activities whose streams give
\* a line, ascending.
MapActivityIds(acts) ==
    LET with == get_all_activities_with_streams(acts)
    IN  SortedSeq({a \in DOMAIN with :
                     /\ with[a] # <<>>
                     /\ streams_to_linestring(with[a][1]) # None})

MapLinestrings(acts) ==
    LET with == get_all_activities_with_streams(acts)
        ids  == MapActivityIds(acts)
    IN  [i \in DOMAIN ids |-> streams_to_linestring(with[ids[i]][1])]

\* generate_map, lines 181-245: the four tables after it, the activity_ids it
\* processed and whether it got as far as linking (it returns early when no
\* activity has a line).
generate_map(acts, lau_links, lau_fv, nuts_links, nuts_fv, lau_to_nuts) ==
    LET activity_ids == MapActivityIds(acts)
        linestrings  == MapLinestrings(acts)
    IN  IF activity_ids = <<>>
        THEN [ran |-> FALSE, activity_ids |-> <<>>,
              activity_lau |-> lau_links, lau_first_visited |-> lau_fv,
              activity_nuts |-> nuts_links, nuts_first_visited |-> nuts_fv]
        ELSE LET found  == find_overlapping_lau(linestrings)
                 linked == LinkAllLau(lau_links,
                               LauPairs(activity_ids, found.activity_lau_map))
                 nuts   == process_nuts_regions(activity_ids, found.activity_lau_map,
                               lau_to_nuts, nuts_links, nuts_fv, acts)
             IN  [ran |-> TRUE, activity_ids |-> activity_ids,
                  activity_lau |-> linked,
                  lau_first_visited |->
                      update_lau_first_visited_dates(lau_fv, linked, acts),
                  activity_nuts |-> nuts.activity_nuts,
                  nuts_first_visited |-> nuts.nuts_first_visited]

(***************************************************************************)
(* strava_service.py: paging the activity list and fetching the streams.   *)
(***************************************************************************)
\* The ids of a set of activities by start_date, ascending.
RECURSIVE ByDateAsc(_)
ByDateAsc(S) ==
    IF S = {} THEN <<>>
    ELSE LET a == CHOOSE x \in S : \A y \in S : StravaData[x].start_date <= StravaData[y].start_date
         IN  <<a>> \o ByDateAsc(S \ {a})

Reverse(seq) == [i \in DOMAIN seq |-> seq[Len(seq) + 1 - i]]

\* GET /athlete/activities over all pages: with `after`, the activities that
\* start later, oldest first; without, all of them, newest first.
ActivityList(at_strava, after_date) ==
    IF after_date = None
    THEN Reverse(ByDateAsc(at_strava))
    ELSE ByDateAsc({a \in at_strava : StravaData[a].start_date > after_date[1]})

\* Page `page` (1, 2, ...) of a list, per_page items a page.
PageOf(list, page) ==
    SubSeq(list, (page - 1) * PerPage + 1,
           IF page * PerPage < Len(list) THEN page * PerPage ELSE Len(list))

\* The loop of fetch_and_store_activities_incremental from page `page` on.
\* Requests number fail_at and later fail (an exception ends the loop). The
\* result: the activities table, total_stored and the last status message.
RECURSIVE PagingLoop(_, _, _, _, _)
PagingLoop(acts, list, page, fail_at, total_stored) ==
    IF page >= fail_at \/ PageOf(list, page) = <<>>
    THEN [activities |-> acts, total_stored |-> total_stored,
          message |-> "Fetching page from Strava..."]
    ELSE LET got   == PageOf(list, page)
             saved == [a \in DOMAIN acts \cup Range(got) |->
                          IF a \in Range(got)
                          THEN save_activity(acts, a, StravaData[a].start_date)[a]
                          ELSE acts[a]]
         IN  IF Len(got) < PerPage
             THEN [activities |-> saved, total_stored |-> total_stored + Len(got),
                   message |-> "Fetched and stored activities..."]
             ELSE PagingLoop(saved, list, page + 1, fail_at, total_stored + Len(got))

\* A variant that undoes the pages already saved when a request fails.
fetch_and_store_activities_incremental_rollback(acts, at_strava, after_date, fail_at) ==
    LET list == ActivityList(at_strava, after_date)
        r    == PagingLoop(acts, list, 1, fail_at, 0)
    IN  IF (fail_at - 1) * PerPage <= Len(list)
        THEN [r EXCEPT !.activities = acts, !.total_stored = 0]
        ELSE r

\* fetch_and_store_activities_incremental(after_date, status_dict)
fetch_and_store_activities_incremental(acts, at_strava, after_date, fail_at) ==
    PagingLoop(acts, ActivityList(at_strava, after_date), 1, fail_at, 0)

\* fetch_and_store_activities(status_dict, fetch_all)
fetch_and_store_activities(acts, at_strava, fetch_all, fail_at) ==
    fetch_and_store_activities_incremental(acts, at_strava,
        IF fetch_all THEN None ELSE get_last_activity_date(acts), fail_at)

\* get_activity_streams(activity_id): the decoded body of a 200 answer; None
\* on a 404 and on any exception (request failed, error status).
get_activity_streams(activity_id, request_fails) ==
    IF request_fails \/ StravaData[activity_id].streams = <<>>
    THEN None
    ELSE StravaData[activity_id].streams

\* A variant that refreshes and asks again as long as the answer is a 401,
\* here: once more after the second.
request_with_refresh_again(first, refresh_ok, second) ==
    IF first # "unauthorized"
    THEN [ok |-> first = "ok", requests |-> 1, refreshes |-> 0]
    ELSE IF ~refresh_ok
    THEN [ok |-> FALSE, requests |-> 1, refreshes |-> 1]
    ELSE IF second = "unauthorized"
    THEN [ok |-> FALSE, requests |-> 3, refreshes |-> 2]
    ELSE [ok |-> second = "ok", requests |-> 2, refreshes |-> 1]

\* The request pattern of lines 109-118 and 183-194: one GET; on a 401 one
\* refresh_access_token() and one more GET. `first` and `second` are how
\* Strava answers the two GETs ("ok", "unauthorized" for 401, "error" for
\* any other failure), refresh_ok whether the token request succeeds (it
\* raises otherwise). The result: whether an answer came back, and the
\* numbers of GETs and of refreshes made.
request_with_refresh(first, refresh_ok, second) ==
    IF first # "unauthorized"
    THEN [ok |-> first = "ok", requests |-> 1, refreshes |-> 0]
    ELSE IF ~refresh_ok
    THEN [ok |-> FALSE, requests |-> 1, refreshes |-> 1]
    ELSE [ok |-> second = "ok", requests |-> 2, refreshes |-> 1]

\* What is done with the answer for one activity (stream_consumer, lines
\* 234-252): store the streams when there are any with a latlng key, else
\* mark the activity as having none.
StoreStreams(acts, activity_id, streams) ==
    IF streams # None /\ "latlng" \in DOMAIN streams[1]
    THEN save_activity_streams(acts, activity_id, streams[1])
    ELSE mark_activity_no_streams(acts, activity_id)

\* process_activity_streams(status_dict): every activity not yet attempted is
\* asked for once; `done` are the ones reached, `failing` those whose request
\* fails.
RECURSIVE process_activity_streams(_, _, _)
process_activity_streams(acts, done, failing) ==
    IF done = {} THEN acts
    ELSE LET a == CHOOSE x \in done : TRUE
         IN  process_activity_streams(
                 StoreStreams(acts, a, get_activity_streams(a, a \in failing)),
                 done \ {a}, failing)

(***************************************************************************)
(* The state after start-up: empty user tables, the region catalog loaded, *)
(* no job, nothing at Strava yet.                                          *)
(***************************************************************************)
ThreadIds == 1..MaxRequests

NoThread == [kind |-> "none", pc |-> "none"]

Dead == [kind |-> "none", pc |-> "dead"]

\* No sync of fetch_and_process_parallel has been called yet.
NoProducer ==
    [pc |-> "idle", fetch_all |-> FALSE, list |-> <<>>, page |-> 1, pending |-> <<>>,
     last_page |-> FALSE]

NoSync ==
    [count |-> 0, initial |-> <<>>, at_strava |-> {}, fetch_all |-> FALSE, fail_at |-> 0,
     failing |-> {}, total_stored |-> 0, enqueued |-> <<>>, handled |-> <<>>,
     dropped |-> <<>>]

\* A level past the last one: process_nuts_regions raises at none.
NoLevel == Max(Levels) + 1

\* generate_map has not met a failure.
NoFaults ==
    [run |-> 0, ids |-> <<>>, geometry |-> {}, lau_links |-> {}, lau_failed |-> {},
     nuts_links |-> {}, nuts_raised_at |-> NoLevel, raised |-> FALSE]

\* No streams request has been made.
NoAuth ==
    [count |-> 0, activity_id |-> 0, first |-> "", refresh_ok |-> FALSE, second |-> "",
     requests |-> 0, refreshes |-> 0, got_streams |-> FALSE]

\* main() has not run yet.
NoStartup ==
    [attempts |-> 0, files |-> <<>>, short_circuit |-> FALSE, result |-> FALSE,
     server |-> FALSE]

Init ==
    /\ processing_status = [is_processing |-> FALSE, stage |-> "", progress |-> 0,
                            total |-> 0, message |-> ""]
    /\ threads = [t \in ThreadIds |-> NoThread]
    /\ http = [count |-> 0, status |-> 0, body |-> ""]
    /\ remote = {}
    /\ activities = <<>>
    /\ activity_lau = EmptyBag
    /\ activity_nuts = EmptyBag
    /\ lau_first_visited = <<>>
    /\ nuts_first_visited = <<>>
    /\ lau_regions = LauIds
    /\ nuts_regions = NutsCodes
    /\ lau_nuts_mapping = LauNutsXref
    /\ attr_log = <<>>
    /\ activity_queue = <<>>
    /\ stop_event = FALSE
    /\ producer = NoProducer
    /\ consumer = "none"
    /\ sync = NoSync
    /\ startup = NoStartup
    /\ faults = NoFaults
    /\ auth = NoAuth

(***************************************************************************)
(* The environment: an activity is recorded or uploaded at Strava. Strava   *)
(* numbers activities in the order they arrive.                            *)
(***************************************************************************)
Upload(a) ==
    /\ a \notin remote
    /\ \A b \in ActivityIds : b < a => b \in remote
    /\ remote' = remote \cup {a}
    /\ UNCHANGED <<processing_status, threads, http, db_user, db_regions, attr_log, parallel, aux>>

(***************************************************************************)
(* app.py: the three endpoints. Each answers 400 when the status record    *)
(* says a job is running, and otherwise starts a thread that runs its      *)
(* process() and answers success. The thread sets is_processing itself, as *)
(* its first step.                                                         *)
(***************************************************************************)
Respond(status, body) ==
    http' = [count |-> http.count + 1, status |-> status, body |-> body]

StartThread(kind) ==
    /\ threads' = [threads EXCEPT ![http.count + 1] = [kind |-> kind, pc |-> "begin"]]
    /\ Respond(200, "success")
    /\ UNCHANGED <<processing_status, remote, db_user, db_regions, attr_log, parallel, aux>>

Endpoint(kind) ==
    /\ http.count < MaxRequests
    /\ IF processing_status["is_processing"]
       THEN /\ Respond(400, "Already processing")
            /\ UNCHANGED <<processing_status, threads, remote, db_user, db_regions,
                           attr_log, parallel, aux>>
       ELSE StartThread(kind)

\* A variant without the is_processing test.
EndpointUnguarded(kind) ==
    /\ http.count < MaxRequests
    /\ StartThread(kind)

update_activities_unguarded == EndpointUnguarded("update")

\* POST /api/update
update_activities == Endpoint("update")

\* POST /api/reset
reset_data == Endpoint("reset")

\* POST /api/reset-activities
reset_activities == Endpoint("reset_activities")

(***************************************************************************)
(* app.py: process(), the body of a job thread, one step per call it makes.*)
(***************************************************************************)
At(t, pc) == threads[t].pc = pc

Goto(t, pc) == threads' = [threads EXCEPT ![t].pc = pc]

FetchAll(t) == threads[t].kind # "update"

\* The first statements of process(): the flag, the stage, the counters.
JobBegin(t) ==
    /\ At(t, "begin")
    /\ processing_status' =
          CASE threads[t].kind = "update" ->
                 [processing_status EXCEPT !.is_processing = TRUE,
                      !.stage = "Fetching activities", !.progress = 0, !.total = 0]
            [] threads[t].kind = "reset" ->
                 [processing_status EXCEPT !.is_processing = TRUE,
                      !.stage = "Clearing data", !.progress = 0]
            [] threads[t].kind = "reset_activities" ->
                 [processing_status EXCEPT !.is_processing = TRUE,
                      !.stage = "Clearing activities", !.progress = 0]
    /\ Goto(t, IF threads[t].kind = "update" THEN "fetch" ELSE "clear")
    /\ UNCHANGED <<http, remote, db_user, db_regions, attr_log, parallel, aux>>

\* reset_data: clear_all_data(), then the next stage.
JobClearAll(t) ==
    /\ At(t, "clear") /\ threads[t].kind = "reset"
    /\ activity_lau' = clear_all_data.activity_lau
    /\ lau_regions' = clear_all_data.lau_regions
    /\ activities' = clear_all_data.activities
    /\ processing_status' = [processing_status EXCEPT !.stage = "Fetching all activities"]
    /\ Goto(t, "fetch")
    /\ UNCHANGED <<http, remote, activity_nuts, lau_first_visited, nuts_first_visited,
                   nuts_regions, lau_nuts_mapping, attr_log, parallel, aux>>

\* reset_activities: clear_activities(), then the next stage.
JobClearActivities(t) ==
    /\ At(t, "clear") /\ threads[t].kind = "reset_activities"
    /\ activities' = clear_activities.activities
    /\ activity_lau' = clear_activities.activity_lau
    /\ activity_nuts' = clear_activities.activity_nuts
    /\ lau_first_visited' = clear_activities.lau_first_visited
    /\ nuts_first_visited' = clear_activities.nuts_first_visited
    /\ processing_status' = [processing_status EXCEPT !.stage = "Fetching all activities"]
    /\ Goto(t, "fetch")
    /\ UNCHANGED <<http, remote, db_regions, attr_log, parallel, aux>>

\* fetch_and_store_activities(processing_status, fetch_all): a failing request
\* ends the paging, it does not raise.
JobFetch(t) ==
    /\ At(t, "fetch")
    /\ \E fail_at \in 1..(NumActs + 2) :
         LET r == fetch_and_store_activities(activities, remote, FetchAll(t), fail_at)
         IN  /\ activities' = r.activities
             /\ processing_status' =
                   [processing_status EXCEPT
                       !.stage = "Fetching and storing activities",
                       !.progress = r.total_stored, !.total = 0,
                       !.message = r.message]
    /\ Goto(t, "streams")
    /\ UNCHANGED <<http, remote, activity_lau, activity_nuts, lau_first_visited,
                   nuts_first_visited, db_regions, attr_log, parallel, aux>>

\* process_activity_streams(processing_status): every activity without
\* streams is asked for; a request that fails leaves the activity marked.
JobStreams(t) ==
    /\ At(t, "streams")
    /\ LET todo == get_activities_without_streams(activities)
       IN  \E failing \in SUBSET todo :
             activities' = process_activity_streams(activities, todo, failing)
    /\ Goto(t, "map")
    /\ UNCHANGED <<processing_status, http, remote, activity_lau, activity_nuts,
                   lau_first_visited, nuts_first_visited, db_regions, attr_log, parallel, aux>>

\* What generate_map does to the tables.
GenerateMapEffects(r) ==
    /\ activity_lau' = r.activity_lau
    /\ lau_first_visited' = r.lau_first_visited
    /\ activity_nuts' = r.activity_nuts
    /\ nuts_first_visited' = r.nuts_first_visited
    /\ activities' = IF r.ran
                     THEN mark_activities_processed_for_regions(activities, r.activity_ids)
                     ELSE activities

\* The stage "Generating map" and generate_map(processing_status). When it
\* raises after the tables are written (plotting, the interactive maps), the
\* writes stay.
JobMap(t) ==
    /\ At(t, "map")
    /\ LET r == generate_map(activities, activity_lau, lau_first_visited,
                             activity_nuts, nuts_first_visited, lau_nuts_mapping)
       IN  /\ GenerateMapEffects(r)
           /\ \E raises \in {FALSE, r.ran} :
                /\ processing_status' =
                      IF r.ran /\ ~raises
                      THEN [processing_status EXCEPT
                               !.stage = "Generating maps", !.progress = 5, !.total = 5,
                               !.message = "All maps generated successfully!"]
                      ELSE [processing_status EXCEPT
                               !.stage = "Generating map", !.progress = 0, !.total = 1,
                               !.message = "Creating map visualization..."]
                /\ Goto(t, IF raises THEN "except" ELSE "complete")
    /\ UNCHANGED <<http, remote, db_regions, attr_log, parallel, aux>>

\* A call of process() raises before it has written anything: clear_all_data
\* or clear_activities, fetch_and_store_activities (before its loop),
\* process_activity_streams or generate_map (loading the shapefile).
JobRaise(t) ==
    /\ threads[t].pc \in {"clear", "fetch", "streams", "map"}
    /\ processing_status' =
          CASE At(t, "fetch") ->
                 [processing_status EXCEPT !.stage = "Fetching and storing activities",
                      !.progress = 0, !.total = 0]
            [] At(t, "map") ->
                 [processing_status EXCEPT !.stage = "Generating map", !.progress = 0,
                      !.total = 1, !.message = "Creating map visualization..."]
            [] OTHER -> processing_status
    /\ Goto(t, "except")
    /\ UNCHANGED <<http, remote, db_user, db_regions, attr_log, parallel, aux>>

\* The end of the try block.
JobComplete(t) ==
    /\ At(t, "complete")
    /\ processing_status' =
          [processing_status EXCEPT
              !.stage = "Complete", !.progress = 1, !.total = 1,
              !.message = CASE threads[t].kind = "update" -> "Update complete!"
                            [] threads[t].kind = "reset" -> "Reset complete!"
                            [] OTHER -> "Activities reset complete!"]
    /\ Goto(t, "finally")
    /\ UNCHANGED <<http, remote, db_user, db_regions, attr_log, parallel, aux>>

\* except Exception as e
JobExcept(t) ==
    /\ At(t, "except")
    /\ processing_status' = [processing_status EXCEPT !.stage = "Error",
                                                      !.message = "str(e)"]
    /\ Goto(t, "finally")
    /\ UNCHANGED <<http, remote, db_user, db_regions, attr_log, parallel, aux>>

\* A variant that ends the thread without clearing the flag.
JobFinally_keepflag(t) ==
    /\ At(t, "finally")
    /\ threads' = [threads EXCEPT ![t] = Dead]
    /\ UNCHANGED <<processing_status, http, remote, db_user, db_regions, attr_log,
                   parallel, aux>>

\* finally: the flag is cleared and the thread ends.
JobFinally(t) ==
    /\ At(t, "finally")
    /\ processing_status' = [processing_status EXCEPT !.is_processing = FALSE]
    /\ threads' = [threads EXCEPT ![t] = Dead]
    /\ UNCHANGED <<http, remote, db_user, db_regions, attr_log, parallel, aux>>

Next ==
    \/ \E a \in ActivityIds : Upload(a)
    \/ update_activities
    \/ reset_data
    \/ reset_activities
    \/ \E t \in ThreadIds : JobBegin(t)
    \/ \E t \in ThreadIds : JobClearAll(t)
    \/ \E t \in ThreadIds : JobClearActivities(t)
    \/ \E t \in ThreadIds : JobFetch(t)
    \/ \E t \in ThreadIds : JobStreams(t)
    \/ \E t \in ThreadIds : JobMap(t)
    \/ \E t \in ThreadIds : JobRaise(t)
    \/ \E t \in ThreadIds : JobComplete(t)
    \/ \E t \in ThreadIds : JobExcept(t)
    \/ \E t \in ThreadIds : JobFinally(t)

Spec == Init /\ [][Next]_vars

(***************************************************************************)
(* One client that waits: a request is sent only when no job is running    *)
(* (the page polls /api/status until the job has ended).                   *)
(***************************************************************************)
Idle == \A t \in ThreadIds : threads[t].pc \in {"none", "dead"}

RequestWhenIdle ==
    /\ Idle
    /\ \/ update_activities
       \/ reset_data
       \/ reset_activities

NextSeq ==
    \/ \E a \in ActivityIds : Upload(a)
    \/ RequestWhenIdle
    \/ \E t \in ThreadIds : JobBegin(t)
    \/ \E t \in ThreadIds : JobClearAll(t)
    \/ \E t \in ThreadIds : JobClearActivities(t)
    \/ \E t \in ThreadIds : JobFetch(t)
    \/ \E t \in ThreadIds : JobStreams(t)
    \/ \E t \in ThreadIds : JobMap(t)
    \/ \E t \in ThreadIds : JobRaise(t)
    \/ \E t \in ThreadIds : JobComplete(t)
    \/ \E t \in ThreadIds : JobExcept(t)
    \/ \E t \in ThreadIds : JobFinally(t)

SpecSeq == Init /\ [][NextSeq]_vars

\* A started thread is scheduled: whatever statement the job is at gets
\* executed, and every phase returns or raises, so the thread moves on to
\* one of the positions that follow.  Every step of NextSeq that moves
\* thread t is a step of its job, and at every position of a live thread
\* one of the Job actions is enabled.
JobPositions ==
    {"clear", "fetch", "streams", "map", "complete", "except", "finally"}

JobStep(t) ==
    /\ threads[t].pc \notin {"none", "dead"}
    /\ \/ \E pc \in JobPositions : Goto(t, pc)
       \/ threads' = [threads EXCEPT ![t] = Dead]

SpecSeqFair == SpecSeq /\ \A t \in ThreadIds : WF_threads(JobStep(t))

(***************************************************************************)
(* Attribution on its own: activities are stored and given streams in any  *)
(* order, and generate_map runs at any moment, over whatever is stored.    *)
(* attr_log records the activity_ids of each run.                          *)
(***************************************************************************)
AttrSave(a) ==
    /\ a \notin DOMAIN activities
    /\ activities' = save_activity(activities, a, StravaData[a].start_date)
    /\ UNCHANGED <<processing_status, threads, http, remote, activity_lau,
                   activity_nuts, lau_first_visited, nuts_first_visited, db_regions,
                   attr_log, parallel, aux>>

AttrStreams(a) ==
    /\ a \in get_activities_without_streams(activities)
    /\ \E request_fails \in BOOLEAN :
         activities' = StoreStreams(activities, a, get_activity_streams(a, request_fails))
    /\ UNCHANGED <<processing_status, threads, http, remote, activity_lau,
                   activity_nuts, lau_first_visited, nuts_first_visited, db_regions,
                   attr_log, parallel, aux>>

AttrGenerateMap ==
    /\ Len(attr_log) < MaxLog
    /\ LET r == generate_map(activities, activity_lau, lau_first_visited,
                             activity_nuts, nuts_first_visited, lau_nuts_mapping)
       IN  /\ r.ran
           /\ GenerateMapEffects(r)
           /\ attr_log' = Append(attr_log, r.activity_ids)
           /\ UNCHANGED <<parallel, aux>>
    /\ UNCHANGED <<processing_status, threads, http, remote, db_regions>>

NextAttr ==
    \/ \E a \in ActivityIds : AttrSave(a)
    \/ \E a \in ActivityIds : AttrStreams(a)
    \/ AttrGenerateMap

SpecAttr == Init /\ [][NextAttr]_vars

(***************************************************************************)
(* strava_service.py: fetch_and_process_parallel. The producer pages the   *)
(* activity list, saves each activity and puts it on activity_queue; the   *)
(* consumer thread takes activities off the queue and asks for their       *)
(* streams. The two run interleaved. `sync` remembers the store the call   *)
(* started from, what was at Strava then and which requests failed.        *)
(***************************************************************************)
MaxSyncs == 2

\* A page number that is never requested.
NoFailure == NumActs + 2

SyncIdle == producer.pc \in {"idle", "done"}

\* A new activity appears at Strava between two syncs.
UploadBetweenSyncs(a) ==
    /\ SyncIdle
    /\ Upload(a)

\* Lines 213-280: the queue and the event are created, the consumer thread
\* is started, the producer computes after_date.
ParStart(fetch_all) ==
    /\ SyncIdle
    /\ sync.count < MaxSyncs
    /\ activity_queue' = <<>>
    /\ stop_event' = FALSE
    /\ consumer' = "running"
    /\ producer' = [pc |-> "paging", fetch_all |-> fetch_all,
                    list |-> ActivityList(remote,
                                 IF fetch_all THEN None
                                 ELSE get_last_activity_date(activities)),
                    page |-> 1, pending |-> <<>>, last_page |-> FALSE]
    /\ sync' = [count |-> sync.count + 1, initial |-> activities,
                at_strava |-> remote, fetch_all |-> fetch_all, fail_at |-> NoFailure,
                failing |-> {}, total_stored |-> 0, enqueued |-> <<>>,
                handled |-> <<>>, dropped |-> <<>>]
    /\ UNCHANGED <<processing_status, threads, http, remote, db_user, db_regions,
                   aux, attr_log>>

\* Lines 282-295: one page is requested. The request may raise (the except
\* clause of line 315 ends the producer); an empty page ends the loop.
ParRequestPage ==
    /\ producer.pc = "paging"
    /\ \E request_fails \in BOOLEAN :
          IF request_fails
          THEN /\ producer' = [producer EXCEPT !.pc = "stopping"]
               /\ sync' = [sync EXCEPT !.fail_at = producer.page]
          ELSE LET got == PageOf(producer.list, producer.page)
               IN  /\ producer' = IF got = <<>>
                                  THEN [producer EXCEPT !.pc = "stopping"]
                                  ELSE [producer EXCEPT !.pc = "saving",
                                                        !.pending = got,
                                                        !.last_page = Len(got) < PerPage]
                   /\ UNCHANGED sync
    /\ UNCHANGED <<processing_status, threads, http, remote, db_user, db_regions,
                   aux, attr_log, activity_queue, stop_event, consumer>>

\* A variant that starts its write whatever the consumer is doing.
ParSaveBegin_nolock ==
    /\ producer.pc = "saving"
    /\ producer' = [producer EXCEPT !.pc = "writing"]
    /\ UNCHANGED <<processing_status, threads, http, remote, db_user, db_regions,
                   aux, attr_log, activity_queue, stop_event, consumer, sync>>

\* save_activity, database.py:234-236: the connection is opened and the
\* INSERT starts a write transaction. SQLite gives the write lock of the
\* database file to one connection at a time: the statement waits while the
\* consumer's connection holds it.
ParSaveBegin ==
    /\ producer.pc = "saving"
    /\ consumer # "writing"
    /\ producer' = [producer EXCEPT !.pc = "writing"]
    /\ UNCHANGED <<processing_status, threads, http, remote, db_user, db_regions,
                   aux, attr_log, activity_queue, stop_event, consumer, sync>>

\* Lines 297-313: the next activity of the page is saved (commit, the lock
\* is released) and queued; after the last one of a full page the next page
\* follows.
ParSaveOne ==
    /\ producer.pc = "writing"
    /\ LET a    == Head(producer.pending)
           rest == Tail(producer.pending)
       IN  /\ activities' = save_activity(activities, a, StravaData[a].start_date)
           /\ activity_queue' = Append(activity_queue, a)
           /\ sync' = [sync EXCEPT !.total_stored = sync.total_stored + 1,
                                    !.enqueued = Append(sync.enqueued, a)]
           /\ producer' = IF rest # <<>>
                          THEN [producer EXCEPT !.pending = rest, !.pc = "saving"]
                          ELSE IF producer.last_page
                          THEN [producer EXCEPT !.pending = rest, !.pc = "stopping"]
                          ELSE [producer EXCEPT !.pending = rest, !.pc = "paging",
                                                !.page = producer.page + 1]
    /\ UNCHANGED <<processing_status, threads, http, remote, activity_lau,
                   activity_nuts, lau_first_visited, nuts_first_visited, db_regions,
                   aux, attr_log, stop_event, consumer>>

\* Line 320: stop_event.set()
ParStop ==
    /\ producer.pc = "stopping"
    /\ stop_event' = TRUE
    /\ producer' = [producer EXCEPT !.pc = "joining"]
    /\ UNCHANGED <<processing_status, threads, http, remote, db_user, db_regions,
                   aux, attr_log, activity_queue, consumer, sync>>

\* Line 321: consumer_thread.join()
ParJoin ==
    /\ producer.pc = "joining"
    /\ consumer = "ended"
    /\ producer' = [producer EXCEPT !.pc = "done"]
    /\ UNCHANGED <<processing_status, threads, http, remote, db_user, db_regions,
                   aux, attr_log, activity_queue, stop_event, consumer, sync>>

\* stream_consumer, lines 231-252: the consumer has an activity in hand (the
\* head of activity_queue here, until its turn ends) and the UPDATE of
\* save_activity_streams or mark_activity_no_streams starts its write
\* transaction, waiting while the producer's connection holds the lock.
ConsWriteBegin ==
    /\ consumer = "running"
    /\ activity_queue # <<>>
    /\ producer.pc # "writing"
    /\ consumer' = "writing"
    /\ UNCHANGED <<processing_status, threads, http, remote, db_user, db_regions,
                   aux, attr_log, activity_queue, stop_event, producer, sync>>

\* stream_consumer, lines 230-258: the streams of the activity in hand, as
\* Strava answered, are stored (commit, the lock is released) and the turn
\* ends.
ConsHandle ==
    /\ consumer = "writing"
    /\ LET a == Head(activity_queue)
       IN  \E request_fails \in BOOLEAN :
              /\ activities' = StoreStreams(activities, a,
                                            get_activity_streams(a, request_fails))
              /\ sync' = [sync EXCEPT
                            !.failing = IF request_fails THEN sync.failing \cup {a}
                                        ELSE sync.failing,
                            !.handled = Append(sync.handled, a)]
    /\ activity_queue' = Tail(activity_queue)
    /\ consumer' = "running"
    /\ UNCHANGED <<processing_status, threads, http, remote, activity_lau,
                   activity_nuts, lau_first_visited, nuts_first_visited, db_regions,
                   aux, attr_log, stop_event, producer>>

\* stream_consumer, lines 231 and 262-263: the consumer has taken an
\* activity off the queue and the body of the loop raises before the write
\* is committed (sqlite3.Error from save_activity_streams or
\* mark_activity_no_streams, such as "database is locked" after the busy
\* timeout). The except clause prints and the loop goes on with the next
\* activity.
ConsError ==
    /\ consumer = "running"
    /\ activity_queue # <<>>
    /\ activity_queue' = Tail(activity_queue)
    /\ sync' = [sync EXCEPT !.dropped = Append(sync.dropped, Head(activity_queue))]
    /\ UNCHANGED <<processing_status, threads, http, remote, db_user, db_regions,
                   aux, attr_log, stop_event, producer, consumer>>

\* A variant of the loop condition that looks at the event only.
ConsExit_onevent ==
    /\ consumer = "running"
    /\ stop_event
    /\ consumer' = "ended"
    /\ UNCHANGED <<processing_status, threads, http, remote, db_user, db_regions,
                   aux, attr_log, activity_queue, stop_event, producer, sync>>

\* stream_consumer, line 229: the loop ends once the event is set and the
\* queue is empty.
ConsExit ==
    /\ consumer = "running"
    /\ stop_event
    /\ activity_queue = <<>>
    /\ consumer' = "ended"
    /\ UNCHANGED <<processing_status, threads, http, remote, db_user, db_regions,
                   aux, attr_log, activity_queue, stop_event, producer, sync>>

NextPar ==
    \/ \E a \in ActivityIds : UploadBetweenSyncs(a)
    \/ \E fetch_all \in BOOLEAN : ParStart(fetch_all)
    \/ ParRequestPage
    \/ ParSaveBegin
    \/ ParSaveOne
    \/ ParStop
    \/ ParJoin
    \/ ConsWriteBegin
    \/ ConsHandle
    \/ ConsExit

SpecPar == Init /\ [][NextPar]_vars

\* The same call with a consumer whose database write may raise, and with
\* both threads scheduled: the producer goes through its statements (every
\* request is answered or raises) and the consumer through its loop.
NextParFair ==
    \/ \E a \in ActivityIds : UploadBetweenSyncs(a)
    \/ \E fetch_all \in BOOLEAN : ParStart(fetch_all)
    \/ ParRequestPage
    \/ ParSaveBegin
    \/ ParSaveOne
    \/ ParStop
    \/ ParJoin
    \/ ConsWriteBegin
    \/ ConsHandle
    \/ ConsError
    \/ ConsExit

ProducerStep == ParRequestPage \/ ParSaveBegin \/ ParSaveOne \/ ParStop \/ ParJoin

ConsumerStep == ConsWriteBegin \/ ConsHandle \/ ConsError \/ ConsExit

SpecParFair ==
    Init /\ [][NextParFair]_vars /\ WF_vars(ProducerStep) /\ WF_vars(ConsumerStep)

(***************************************************************************)
(* run.py and region_database_init.py: start-up. Each run of main() finds  *)
(* the three reference datasets in some condition and the region catalog   *)
(* as earlier runs and resets left it.                                     *)
(***************************************************************************)
MaxStartups == 2

\* The sheets of the cross-reference workbook: one per country it covers.
Sheets == {LauNutsXref[m][1] : m \in DOMAIN LauNutsXref}

\* The conditions a dataset can be in. A shapefile is there with its columns,
\* cannot be read, or lacks its identifier column; the workbook cannot be
\* read, or each of its sheets has the two code columns or lacks one.
LauFiles == {"ok", "missing", "no_id_column"}

NutsFiles == {"ok", "missing", "no_code_column"}

XlsxFiles ==
    {[present |-> FALSE, sheets |-> [sh \in Sheets |-> "ok"]]}
       \cup {[present |-> TRUE, sheets |-> f] : f \in [Sheets -> {"ok", "no_column"}]}

Datasets == [lau : LauFiles, nuts : NutsFiles, xlsx : XlsxFiles]

\* check_region_database_status()
check_region_database_status(lau, nuts, mapping) ==
    LET lau_count     == Cardinality(lau)
        nuts_counts   == [level \in Levels |->
                            Cardinality({c \in nuts : NutsGdf[c].level = level})]
        mapping_count == Cardinality(DOMAIN mapping)
    IN  [lau_count |-> lau_count, nuts_counts |-> nuts_counts,
         mapping_count |-> mapping_count,
         is_initialized |-> lau_count > 0 /\ \A level \in Levels : nuts_counts[level] > 0]

\* load_all_lau_regions(): gpd.read_file raises on an unreadable file and
\* row['LAU_ID'] on a missing column, both before the commit; otherwise one
\* INSERT OR IGNORE per row.
load_all_lau_regions(lau, file) ==
    IF file # "ok" THEN [raised |-> TRUE, lau_regions |-> lau]
    ELSE [raised |-> FALSE, lau_regions |-> lau \cup LauIds]

\* load_all_nuts_regions(): the same for the NUTS shapefile.
load_all_nuts_regions(nuts, file) ==
    IF file # "ok" THEN [raised |-> TRUE, nuts_regions |-> nuts]
    ELSE [raised |-> FALSE, nuts_regions |-> nuts \cup NutsCodes]

\* parse_nuts_mapping(): a sheet without the two code columns is skipped
\* with a warning; no usable sheet at all raises.
parse_nuts_mapping(xlsx) ==
    LET good == {sh \in Sheets : xlsx.sheets[sh] = "ok"}
        rows == {m \in DOMAIN LauNutsXref : LauNutsXref[m][1] \in good}
    IN  IF ~xlsx.present \/ good = {}
        THEN [raised |-> TRUE, rows |-> <<>>]
        ELSE [raised |-> FALSE, rows |-> [m \in rows |-> LauNutsXref[m]]]

\* create_lau_nuts_mappings(): INSERT OR REPLACE of every parsed row.
create_lau_nuts_mappings(mapping, xlsx) ==
    LET parsed == parse_nuts_mapping(xlsx)
    IN  IF parsed.raised THEN [raised |-> TRUE, lau_nuts_mapping |-> mapping]
        ELSE [raised |-> FALSE,
              lau_nuts_mapping |-> InsertOrReplaceAll(mapping, parsed.rows)]

\* initialize_region_database(force): its return value, whether it took the
\* already-initialized exit, and the three tables after it.
initialize_region_database(lau, nuts, mapping, force, files) ==
    LET status == check_region_database_status(lau, nuts, mapping)
        step1  == load_all_lau_regions(lau, files.lau)
        step2  == load_all_nuts_regions(nuts, files.nuts)
        step3  == create_lau_nuts_mappings(mapping, files.xlsx)
        out(result, short, l, n, m) ==
            [result |-> result, short_circuit |-> short, lau_regions |-> l,
             nuts_regions |-> n, lau_nuts_mapping |-> m]
    IN  IF status.is_initialized /\ ~force THEN out(TRUE, TRUE, lau, nuts, mapping)
        ELSE IF step1.raised THEN out(FALSE, FALSE, lau, nuts, mapping)
        ELSE IF step2.raised THEN out(FALSE, FALSE, step1.lau_regions, nuts, mapping)
        ELSE IF step3.raised
        THEN out(FALSE, FALSE, step1.lau_regions, step2.nuts_regions, mapping)
        ELSE out(check_region_database_status(step1.lau_regions, step2.nuts_regions,
                                              step3.lau_nuts_mapping).is_initialized,
                 FALSE, step1.lau_regions, step2.nuts_regions, step3.lau_nuts_mapping)

\* run.main(): regions.db is there, init_database(), then
\* initialize_region_database(); the web server is started only when that
\* returned True.
Main(files) ==
    /\ startup.attempts < MaxStartups
    /\ ~startup.server
    /\ LET r == initialize_region_database(lau_regions, nuts_regions,
                                           lau_nuts_mapping, FALSE, files)
       IN  /\ lau_regions' = r.lau_regions
           /\ nuts_regions' = r.nuts_regions
           /\ lau_nuts_mapping' = r.lau_nuts_mapping
           /\ startup' = [attempts |-> startup.attempts + 1, files |-> files,
                          short_circuit |-> r.short_circuit, result |-> r.result,
                          server |-> r.result]
    /\ UNCHANGED <<processing_status, threads, http, remote, db_user, attr_log, parallel, faults, auth>>

\* /api/reset while the server runs: what clear_all_data does to the tables.
ResetWhileServing ==
    /\ startup.server
    /\ lau_regions # {}
    /\ activity_lau' = clear_all_data.activity_lau
    /\ lau_regions' = clear_all_data.lau_regions
    /\ activities' = clear_all_data.activities
    /\ UNCHANGED <<processing_status, threads, http, remote, activity_nuts,
                   lau_first_visited, nuts_first_visited, nuts_regions,
                   lau_nuts_mapping, attr_log, parallel, aux>>

\* The server process ends (Ctrl+C).
StopServer ==
    /\ startup.server
    /\ startup' = [startup EXCEPT !.server = FALSE]
    /\ UNCHANGED <<processing_status, threads, http, remote, db_user, db_regions,
                   attr_log, parallel, faults, auth>>

\* regions.db exists with its schema and no rows.
InitFresh ==
    /\ processing_status = [is_processing |-> FALSE, stage |-> "", progress |-> 0,
                            total |-> 0, message |-> ""]
    /\ threads = [t \in ThreadIds |-> NoThread]
    /\ http = [count |-> 0, status |-> 0, body |-> ""]
    /\ remote = {}
    /\ activities = <<>>
    /\ activity_lau = EmptyBag
    /\ activity_nuts = EmptyBag
    /\ lau_first_visited = <<>>
    /\ nuts_first_visited = <<>>
    /\ lau_regions = {}
    /\ nuts_regions = {}
    /\ lau_nuts_mapping = <<>>
    /\ attr_log = <<>>
    /\ activity_queue = <<>>
    /\ stop_event = FALSE
    /\ producer = NoProducer
    /\ consumer = "none"
    /\ sync = NoSync
    /\ startup = NoStartup
    /\ faults = NoFaults
    /\ auth = NoAuth

NextInit ==
    \/ \E files \in Datasets : Main(files)
    \/ ResetWhileServing
    \/ StopServer

SpecInit == InitFresh /\ [][NextInit]_vars

(***************************************************************************)
(* Attribution over tracks of any length: Strava answers the streams       *)
(* request of an activity with a track of no, one or two points, the       *)
(* answer is stored as stream_consumer stores it, and generate_map runs    *)
(* over whatever is stored.                                                *)
(***************************************************************************)
\* (lat, lon) of a point inside M1 and of a point inside M3.
TrackPoints == {<<0, 0>>, <<4, 1>>}

Tracks ==
    {<<>>} \cup {<<p>> : p \in TrackPoints}
           \cup {<<p, q>> : p \in TrackPoints, q \in TrackPoints}

TrackStored(a, track) ==
    /\ a \notin DOMAIN activities
    /\ \A b \in ActivityIds : b < a => b \in DOMAIN activities
    /\ activities' = StoreStreams(save_activity(activities, a, StravaData[a].start_date),
                                  a, <<LatLng(track)>>)
    /\ UNCHANGED <<processing_status, threads, http, remote, activity_lau,
                   activity_nuts, lau_first_visited, nuts_first_visited, db_regions,
                   attr_log, parallel, aux>>

NextTrack ==
    \/ \E a \in ActivityIds, track \in Tracks : TrackStored(a, track)
    \/ AttrGenerateMap

SpecTrack == Init /\ [][NextTrack]_vars

(***************************************************************************)
(* map_generator.py: generate_map when something fails. Three things can:  *)
(* the intersection of a track in find_overlapping_lau (nothing catches    *)
(* it, generate_map raises before any write), a link_activity_lau call     *)
(* (caught per link, lines 220-224) and process_nuts_regions (caught as a  *)
(* whole, lines 233-238, after the LAU links are written).                 *)
(***************************************************************************)
MaxFaultRuns == 1

\* process_nuts_regions raising at the first link of level raise_level: the
\* links of the lower levels are written (each link_activity_nuts commits),
\* update_nuts_first_visited_dates is not reached.
process_nuts_regions_raising(activity_ids, activity_lau_map, lau_to_nuts, links, first_visited, acts, raise_level) ==
    LET targets == activity_nuts_links(activity_ids, activity_lau_map, lau_to_nuts)
        lower   == {<<pair[1], lau_to_nuts[pair[2]][level + 1]>> :
                       pair \in {x \in LauPairs(activity_ids, activity_lau_map) :
                                   x[2] \in DOMAIN lau_to_nuts},
                       level \in {l \in Levels : l < raise_level}}
    IN  IF DOMAIN lau_to_nuts = {} \/ targets = {} \/ raise_level = NoLevel
        THEN process_nuts_regions(activity_ids, activity_lau_map, lau_to_nuts, links,
                                  first_visited, acts)
             @@ [raised |-> FALSE]
        ELSE [activity_nuts |-> LinkAllNuts(links, lower),
              nuts_first_visited |-> first_visited, raised |-> TRUE]

\* generate_map with the failures given: `geometry` the activities whose
\* track cannot be intersected, `lau_failed` the LAU link writes that raise,
\* raise_level where process_nuts_regions raises.
generate_map_failing(acts, lau_links, lau_fv, nuts_links, nuts_fv, lau_to_nuts, geometry, lau_failed, raise_level) ==
    LET activity_ids == MapActivityIds(acts)
        linestrings  == MapLinestrings(acts)
        untouched(ran, raised) ==
            [ran |-> ran, raised |-> raised, activity_ids |-> activity_ids,
             activity_lau |-> lau_links, lau_first_visited |-> lau_fv,
             activity_nuts |-> nuts_links, nuts_first_visited |-> nuts_fv,
             nuts_raised |-> FALSE]
    IN  IF activity_ids = <<>> THEN untouched(FALSE, FALSE)
        ELSE IF geometry \cap Range(activity_ids) # {} THEN untouched(FALSE, TRUE)
        ELSE LET found  == find_overlapping_lau(linestrings)
                 linked == LinkAllLau(lau_links,
                               LauPairs(activity_ids, found.activity_lau_map) \ lau_failed)
                 nuts   == process_nuts_regions_raising(activity_ids,
                               found.activity_lau_map, lau_to_nuts, nuts_links, nuts_fv,
                               acts, raise_level)
             IN  [ran |-> TRUE, raised |-> FALSE, activity_ids |-> activity_ids,
                  activity_lau |-> linked,
                  lau_first_visited |->
                      update_lau_first_visited_dates(lau_fv, linked, acts),
                  activity_nuts |-> nuts.activity_nuts,
                  nuts_first_visited |-> nuts.nuts_first_visited,
                  nuts_raised |-> nuts.raised]

\* The links a run over these activities has to write when nothing fails.
ExpectedLauLinks(acts) ==
    LauPairs(MapActivityIds(acts),
             find_overlapping_lau(MapLinestrings(acts)).activity_lau_map)

ExpectedNutsLinks(acts, lau_to_nuts) ==
    activity_nuts_links(MapActivityIds(acts),
                        find_overlapping_lau(MapLinestrings(acts)).activity_lau_map,
                        lau_to_nuts)

\* One run of generate_map in which at most one track cannot be intersected
\* and at most one LAU link write fails.
FailingGenerateMap ==
    /\ faults.run < MaxFaultRuns
    /\ MapActivityIds(activities) # <<>>
    /\ LET ids   == Range(MapActivityIds(activities))
           pairs == ExpectedLauLinks(activities)
       IN  \E geometry \in {{}} \cup {{a} : a \in ids},
              lau_failed \in {{}} \cup {{p} : p \in pairs},
              raise_level \in Levels \cup {NoLevel} :
              LET r == generate_map_failing(activities, activity_lau, lau_first_visited,
                           activity_nuts, nuts_first_visited, lau_nuts_mapping,
                           geometry, lau_failed, raise_level)
              IN  /\ GenerateMapEffects(r)
                  /\ faults' = [run |-> faults.run + 1,
                                ids |-> MapActivityIds(activities),
                                geometry |-> geometry,
                                lau_links |-> pairs,
                                lau_failed |-> IF r.ran THEN lau_failed ELSE {},
                                nuts_links |-> ExpectedNutsLinks(activities,
                                                                 lau_nuts_mapping),
                                nuts_raised_at |-> IF r.nuts_raised THEN raise_level
                                                   ELSE NoLevel,
                                raised |-> r.raised]
    /\ UNCHANGED <<processing_status, threads, http, remote, db_regions, attr_log,
                   parallel, startup, auth>>

NextFault ==
    \/ \E a \in ActivityIds : AttrSave(a)
    \/ \E a \in ActivityIds : AttrStreams(a)
    \/ FailingGenerateMap

SpecFault == Init /\ [][NextFault]_vars

(***************************************************************************)
(* strava_service.py: the sequential paging alone, sync after sync, with   *)
(* the request for page fail_at failing. `sync` keeps what each call       *)
(* started from and what it returned.                                      *)
(***************************************************************************)
PagingSync(fetch_all, fail_at) ==
    /\ sync.count < MaxSyncs
    /\ LET r == fetch_and_store_activities(activities, remote, fetch_all, fail_at)
       IN  /\ activities' = r.activities
           /\ sync' = [count |-> sync.count + 1, initial |-> activities,
                       at_strava |-> remote, fetch_all |-> fetch_all,
                       fail_at |-> fail_at, failing |-> {},
                       total_stored |-> r.total_stored,
                       enqueued |-> <<>>, handled |-> <<>>,
                       dropped |-> <<>>]
    /\ UNCHANGED <<processing_status, threads, http, remote, activity_lau,
                   activity_nuts, lau_first_visited, nuts_first_visited, db_regions,
                   aux, attr_log, activity_queue, stop_event, producer, consumer>>

NextPaging ==
    \/ \E a \in ActivityIds : Upload(a)
    \/ \E fetch_all \in BOOLEAN, fail_at \in 1..NoFailure : PagingSync(fetch_all, fail_at)

SpecPaging == Init /\ [][NextPaging]_vars

(***************************************************************************)
(* strava_service.py: the streams of one activity after the other, each    *)
(* request answered by Strava with success, a 401 or another failure.      *)
(***************************************************************************)
Answers == {"ok", "unauthorized", "error"}

\* One turn of the loop of stream_consumer for an activity not yet attempted.
AuthStreams(a, first, refresh_ok, second) ==
    /\ a \in get_activities_without_streams(activities)
    /\ LET q       == request_with_refresh(first, refresh_ok, second)
           streams == get_activity_streams(a, ~q.ok)
       IN  /\ activities' = StoreStreams(activities, a, streams)
           /\ auth' = [count |-> auth.count + 1, activity_id |-> a, first |-> first,
                       refresh_ok |-> refresh_ok, second |-> second,
                       requests |-> q.requests, refreshes |-> q.refreshes,
                       got_streams |-> streams # None]
    /\ UNCHANGED <<processing_status, threads, http, remote, activity_lau,
                   activity_nuts, lau_first_visited, nuts_first_visited, db_regions,
                   attr_log, parallel, startup, faults>>

NextAuth ==
    \/ \E a \in ActivityIds : AttrSave(a)
    \/ \E a \in ActivityIds, first \in Answers, refresh_ok \in BOOLEAN, second \in Answers :
          AuthStreams(a, first, refresh_ok, second)

SpecAuth == Init /\ [][NextAuth]_vars

(***************************************************************************)
(* Properties.                                                             *)
(***************************************************************************)
\* A job thread is running from the first statement of process() to the end
\* of its finally block.
Running(t) ==
    threads[t].pc \in {"clear", "fetch", "streams", "map", "complete", "except",
                       "finally"}

\* C1: at most one background job is running at any time: no reachable state
\* has two job threads both between their start and the end of their finally
\* block.
AtMostOneJobRunning ==
    Cardinality({t \in ThreadIds : Running(t)}) <= 1

\* A step that answers a request.
IsRequest == http'.count = http.count + 1

\* C2: a request that arrives while is_processing is True is answered 400
\* 'Already processing', starts no thread and leaves the status record and
\* all stored data unchanged; nothing is queued: a thread starts only in the
\* step that answers a request with success.
BusyRequestRejected ==
    [][ /\ (IsRequest /\ processing_status["is_processing"])
           => /\ http'.status = 400
              /\ http'.body = "Already processing"
              /\ UNCHANGED <<threads, processing_status, db_user, db_regions>>
        /\ (threads' # threads /\ \E t \in ThreadIds : threads[t] = NoThread /\ threads'[t] # NoThread)
           => (IsRequest /\ http'.status = 200) ]_vars

\* A request has been rejected while a job was running.
BusyRequestRejectedWitness ==
    /\ http.status = 400
    /\ http.body = "Already processing"
    /\ \E t \in ThreadIds : Running(t)
    /\ \E t \in ThreadIds : threads[t] = NoThread

LinkPairsLau == ActivityIds \X LauIds

LinkPairsNuts == ActivityIds \X NutsCodes

\* C3: linking is idempotent: on every table the program reaches, for every
\* (activity, region) pair, link_activity_lau / link_activity_nuts called
\* twice leaves exactly one row for the pair and the table of the first call;
\* the tables themselves never hold a pair twice.
LinkIdempotent ==
    /\ \A p \in LinkPairsLau :
         LET once  == link_activity_lau(activity_lau, p[1], p[2])
             twice == link_activity_lau(once, p[1], p[2])
         IN  /\ twice = once
             /\ Count(twice, p) = 1
             /\ Count(activity_lau, p) <= 1
    /\ \A p \in LinkPairsNuts :
         LET once  == link_activity_nuts(activity_nuts, p[1], p[2])
             twice == link_activity_nuts(once, p[1], p[2])
         IN  /\ twice = once
             /\ Count(twice, p) = 1
             /\ Count(activity_nuts, p) <= 1

\* Two runs of generate_map have linked the same activity, and its links
\* are there once.
LinkIdempotentWitness ==
    /\ Len(attr_log) = 2
    /\ \E a \in Range(attr_log[1]) \cap Range(attr_log[2]) :
         /\ \E m \in LauIds : Count(activity_lau, <<a, m>>) = 1
         /\ \E n \in NutsCodes : Count(activity_nuts, <<a, n>>) = 1

\* Activity a attributed on its own, from empty tables.
AttributedAlone(a) ==
    LET saved == save_activity(<<>>, a, StravaData[a].start_date)
        acts  == StoreStreams(saved, a, StravaData[a].streams)
    IN  generate_map(acts, EmptyBag, <<>>, EmptyBag, <<>>, LauNutsXref)

\* The union of the link rows the activities of S get on their own.
MergedLinks(S, table) ==
    SetToBag(UNION {Rows(AttributedAlone(a)[table]) : a \in S})

\* Per region, the earliest of the dates the activities of S give it on
\* their own.
MergedFirstVisited(S, table) ==
    LET regions == UNION {DOMAIN AttributedAlone(a)[table] : a \in S}
    IN  [r \in regions |->
            Min({AttributedAlone(a)[table][r] :
                   a \in {b \in S : r \in DOMAIN AttributedAlone(b)[table]}})]

\* C4: attribution is order-independent: whatever was attributed before and
\* in whatever order, after a run of generate_map over a set of activities
\* the link tables and the first_visited values are the merge of what each
\* activity gets on its own, so A then B, B then A and {A, B} in one batch
\* end the same.
AttributionOrderIndependent ==
    [][ attr_log' # attr_log =>
          LET S == Range(attr_log'[Len(attr_log')])
          IN  /\ activity_lau' = MergedLinks(S, "activity_lau")
              /\ activity_nuts' = MergedLinks(S, "activity_nuts")
              /\ lau_first_visited' = MergedFirstVisited(S, "lau_first_visited")
              /\ nuts_first_visited' = MergedFirstVisited(S, "nuts_first_visited") ]_vars

\* One activity was attributed, then the other one with it, and the tables
\* are those of the batch.
AttributionOrderIndependentWitness ==
    /\ Len(attr_log) = 2
    /\ Len(attr_log[1]) = 1
    /\ Len(attr_log[2]) = 2
    /\ Range(attr_log[1]) \subseteq Range(attr_log[2])
    /\ Cardinality(Rows(activity_lau)) >= 3
    /\ activity_lau = MergedLinks(Range(attr_log[2]), "activity_lau")

\* The regions of a link table's rows.
LinkedRegions(links) == {row[2] : row \in Rows(links)}

\* The statistical links the local links stand for: for every local link
\* whose unit the mapping knows, the unit's region at each level.
ImageOfLocalLinks(lau_links) ==
    {<<row[1], lau_nuts_mapping[row[2]][level + 1]>> :
        row \in {x \in Rows(lau_links) : x[2] \in DOMAIN lau_nuts_mapping},
        level \in Levels}

AttributionDone ==
    /\ MapActivityIds(activities) # <<>>
    /\ \E t \in ThreadIds : threads[t].pc = "map" /\ threads'[t].pc = "complete"

\* C6: after attribution the statistical links are exactly the image of the
\* local links: for each level k, {(a, parent_k(m)) : (a, m) a local link},
\* with no additional pairs.
StatisticalLinksAreImage ==
    [][ AttributionDone =>
          Rows(activity_nuts') = ImageOfLocalLinks(activity_lau') ]_vars

\* The codes of the rows of a query result.
Codes(result) == {result[i].code : i \in DOMAIN result}

\* C7: visited-set exclusion: in every reachable state, a catalog region
\* with zero rows in its link table is in the result of none of the
\* visited-regions queries, with or without a country filter, at any level.
VisitedSetExclusion ==
    LET unlinked_lau  == lau_regions \ LinkedRegions(activity_lau)
        unlinked_nuts == nuts_regions \ LinkedRegions(activity_nuts)
    IN  /\ Codes(get_all_lau_regions) \cap unlinked_lau = {}
        /\ \A c \in Countries :
             Codes(get_all_lau_regions_filtered(c)) \cap unlinked_lau = {}
        /\ \A level \in Levels :
             /\ Codes(get_nuts_regions_by_level(level)) \cap unlinked_nuts = {}
             /\ \A c \in Countries :
                  Codes(get_nuts_regions_by_level_filtered(level, c))
                      \cap unlinked_nuts = {}

\* Some regions are visited and listed, with and without filter, while
\* catalog regions without links exist.
VisitedSetExclusionWitness ==
    /\ get_all_lau_regions # <<>>
    /\ get_all_lau_regions_filtered("X") # <<>>
    /\ get_nuts_regions_by_level(3) # <<>>
    /\ get_nuts_regions_by_level_filtered(0, "X") # <<>>
    /\ lau_regions \ LinkedRegions(activity_lau) # {}
    /\ nuts_regions \ LinkedRegions(activity_nuts) # {}

\* first_visited of every linked region is the earliest start_date of the
\* activities linked to it.
FirstVisitedIsMin(first_visited, links, acts) ==
    \A r \in LinkedRegions(links) :
        /\ r \in DOMAIN first_visited
        /\ JoinedDates(links, acts, r) # {}
        /\ first_visited[r] = Min(JoinedDates(links, acts, r))

\* C8: after update_lau_first_visited_dates / update_nuts_first_visited_dates
\* has run (they run in generate_map), every region with at least one link at
\* that classification has as first_visited the minimum start_date over the
\* activities linked to it.
FirstVisitedIsMinAfterUpdate ==
    [][ AttributionDone =>
          /\ FirstVisitedIsMin(lau_first_visited', activity_lau', activities')
          /\ FirstVisitedIsMin(nuts_first_visited', activity_nuts', activities') ]_vars

\* C9: a region's visitation status is consistent whenever no job is
\* running, after any sequence of syncs and resets: a region with no links
\* has no first_visited, and first_visited is set only for regions with at
\* least one link.
VisitationStateConsistent ==
    Idle =>
        /\ DOMAIN lau_first_visited \subseteq LinkedRegions(activity_lau)
        /\ DOMAIN nuts_first_visited \subseteq LinkedRegions(activity_nuts)

\* C10: first-visited monotonicity: without a reset, whatever activities are
\* added and attributed, a region that has a first_visited keeps one, and it
\* stays the same or moves earlier, never later.
FirstVisitedMonotone ==
    [][ /\ \A r \in DOMAIN lau_first_visited :
             /\ r \in DOMAIN lau_first_visited'
             /\ lau_first_visited'[r] <= lau_first_visited[r]
        /\ \A r \in DOMAIN nuts_first_visited :
             /\ r \in DOMAIN nuts_first_visited'
             /\ nuts_first_visited'[r] <= nuts_first_visited[r] ]_vars

\* Activity 1 was attributed alone, then the older activity 2 with it, and
\* the region they share has moved to the older date.
FirstVisitedMonotoneWitness ==
    /\ Len(attr_log) = 2
    /\ attr_log[1] = <<1>>
    /\ attr_log[2] = <<1, 2>>
    /\ StravaData[2].start_date < StravaData[1].start_date
    /\ "M1" \in DOMAIN lau_first_visited
    /\ lau_first_visited["M1"] = StravaData[2].start_date
    /\ "X" \in DOMAIN nuts_first_visited
    /\ nuts_first_visited["X"] = StravaData[2].start_date

\* A query result is in first_visited descending order.
OrderedDesc(result) ==
    \A i \in 1..(Len(result) - 1) :
        result[i].first_visited >= result[i + 1].first_visited

\* Every row of a query result counts the distinct activities the link
\* table gives its region.
CountsLinkedActivities(result, links) ==
    \A i \in DOMAIN result :
        result[i].activity_count =
            Cardinality({a \in ActivityIds : Count(links, <<a, result[i].code>>) > 0})

\* C11: the visited-regions queries return their regions ordered by
\* first_visited descending, and each row's activity_count is the number of
\* distinct activities linked to the region.
VisitedRegionsOrderedAndCounted ==
    /\ LET result == get_all_lau_regions
       IN  OrderedDesc(result) /\ CountsLinkedActivities(result, activity_lau)
    /\ \A c \in Countries :
         LET result == get_all_lau_regions_filtered(c)
         IN  OrderedDesc(result) /\ CountsLinkedActivities(result, activity_lau)
    /\ \A level \in Levels :
         /\ LET result == get_nuts_regions_by_level(level)
            IN  OrderedDesc(result) /\ CountsLinkedActivities(result, activity_nuts)
         /\ \A c \in Countries :
              LET result == get_nuts_regions_by_level_filtered(level, c)
              IN  OrderedDesc(result) /\ CountsLinkedActivities(result, activity_nuts)

\* The LAU query lists regions discovered at different dates, the latest
\* first, one of them with two activities.
VisitedRegionsOrderedAndCountedWitness ==
    LET result == get_all_lau_regions
    IN  /\ Len(result) >= 3
        /\ result[1].first_visited > result[Len(result)].first_visited
        /\ \E i \in DOMAIN result : result[i].activity_count = 2
        /\ Len(get_nuts_regions_by_level(3)) >= 2

\* A step in which a reset-activities job has cleared.
ResetActivitiesCleared ==
    \E t \in ThreadIds :
        /\ threads[t].kind = "reset_activities"
        /\ threads[t].pc = "clear"
        /\ threads'[t].pc = "fetch"

\* C12: reset-activities-only leaves every Region Catalog row and every
\* lau_nuts_mapping row unchanged, empties the activities table and both
\* link tables, and sets first_visited to null for every region; so does
\* the command-line reset of user data, clear_user_data_from_db.
ResetActivitiesOnlyEffect ==
    [][ ResetActivitiesCleared =>
          /\ UNCHANGED db_regions
          /\ activities' = <<>>
          /\ activity_lau' = EmptyBag
          /\ activity_nuts' = EmptyBag
          /\ \A r \in LauIds : FirstVisitedOf(lau_first_visited', r) = NULL
          /\ \A r \in NutsCodes : FirstVisitedOf(nuts_first_visited', r) = NULL
          /\ LET db == clear_user_data_from_db(LegacyDb)
             IN  /\ DOMAIN db.lau_regions = lau_regions
                 /\ DOMAIN db.nuts_regions = nuts_regions
                 /\ db.lau_nuts_mapping = lau_nuts_mapping
                 /\ db.activities = <<>>
                 /\ db.activity_lau = EmptyBag
                 /\ db.activity_nuts = EmptyBag
                 /\ \A r \in DOMAIN db.lau_regions : db.lau_regions[r] = NULL
                 /\ \A r \in DOMAIN db.nuts_regions : db.nuts_regions[r] = NULL ]_vars

\* After an earlier job, a reset-activities job has cleared: the user
\* tables are empty, the catalog is whole.
ResetActivitiesOnlyEffectWitness ==
    /\ \E t \in ThreadIds : threads[t] = Dead
    /\ \E t \in ThreadIds : threads[t] = [kind |-> "reset_activities", pc |-> "fetch"]
    /\ activities = <<>>
    /\ activity_lau = EmptyBag
    /\ activity_nuts = EmptyBag
    /\ lau_first_visited = <<>>
    /\ nuts_first_visited = <<>>
    /\ lau_regions = LauIds
    /\ nuts_regions = NutsCodes
    /\ lau_nuts_mapping = LauNutsXref

\* C13: the Region Catalog is read-only after startup: no step of a job
\* started through /api/update, /api/reset or /api/reset-activities inserts,
\* deletes or changes a row of lau_regions, nuts_regions or lau_nuts_mapping.
RegionCatalogReadOnly ==
    [][ /\ lau_regions' = lau_regions
        /\ nuts_regions' = nuts_regions
        /\ lau_nuts_mapping' = lau_nuts_mapping ]_vars

\* The track states of a stored activity.
NotFetched(row) == row.streams_fetched = 0

FetchedWithTrack(row) == row.streams_fetched = 1 /\ row.has_streams = 1

FetchedNoTrack(row) == row.streams_fetched = 1 /\ row.has_streams = 0

\* The source's answer for activity a is a confirmed 'no track': a 404, or
\* streams without positions.
ConfirmedNoTrack(a) ==
    \/ StravaData[a].streams = <<>>
    \/ "latlng" \notin DOMAIN StravaData[a].streams[1]

\* C14: a transient failure while fetching an activity's track never moves
\* the activity to FetchedNoTrack: an activity becomes FetchedNoTrack only
\* when the source's answer for it is a confirmed 'no track'.
OnlyConfirmedNoTrackIsMarked ==
    [][ \A a \in DOMAIN activities \cap DOMAIN activities' :
          (NotFetched(activities[a]) /\ FetchedNoTrack(activities'[a]))
             => ConfirmedNoTrack(a) ]_vars

(***************************************************************************)
(* C15: across syncs without a reset, an activity that is FetchedWithTrack *)
(* or FetchedNoTrack is never asked for again, and no step changes its     *)
(* has_streams or streams_fetched, a save_activity of it included.         *)
(***************************************************************************)
Fetched(row) == FetchedWithTrack(row) \/ FetchedNoTrack(row)

\* This step is the consumer asking for the streams of activity a.
AsksStreamsOf(a) ==
    /\ activity_queue # <<>>
    /\ Head(activity_queue) = a
    /\ activity_queue' = Tail(activity_queue)

TrackStatusSetOnce ==
    [][ \A a \in DOMAIN activities :
           Fetched(activities[a])
              => /\ ~AsksStreamsOf(a)
                 /\ a \in DOMAIN activities'
                 /\ activities'[a].has_streams = activities[a].has_streams
                 /\ activities'[a].streams_fetched = activities[a].streams_fetched ]_vars

(***************************************************************************)
(* C16: when fetch_and_process_parallel has returned, the activities table *)
(* is the one the sequential sync leaves for the same store at the start,  *)
(* the same activities at Strava, the same fetch_all and the same failing  *)
(* requests: fetch_and_store_activities, then the streams of every         *)
(* activity not yet attempted.                                             *)
(***************************************************************************)
SequentialSync(initial, at_strava, fetch_all, fail_at, failing) ==
    LET paged == fetch_and_store_activities(initial, at_strava, fetch_all, fail_at).activities
    IN  process_activity_streams(paged, get_activities_without_streams(paged), failing)

ParallelEqualsSequential ==
    producer.pc = "done"
       => activities = SequentialSync(sync.initial, sync.at_strava, producer.fetch_all,
                                      sync.fail_at, sync.failing)

(***************************************************************************)
(* C17: when a run of initialize_region_database without force takes the   *)
(* already-initialized exit, the catalog has LAU regions, NUTS regions at   *)
(* each of the levels 0-3 and mapping rows, whatever the earlier runs did.  *)
(***************************************************************************)
FullyPopulated(lau, nuts, mapping) ==
    /\ lau # {}
    /\ \A level \in Levels : \E c \in nuts : NutsGdf[c].level = level
    /\ DOMAIN mapping # {}

ThisStepIsMain == startup'.attempts = startup.attempts + 1

ShortCircuitMeansPopulated ==
    [][ (ThisStepIsMain /\ startup'.short_circuit)
           => FullyPopulated(lau_regions, nuts_regions, lau_nuts_mapping) ]_vars

(***************************************************************************)
(* C18: a run of main() that finds one of the three datasets missing,      *)
(* unreadable or without a required column gets False from                 *)
(* initialize_region_database and does not start the web server.           *)
(***************************************************************************)
Defective(files) ==
    \/ files.lau # "ok"
    \/ files.nuts # "ok"
    \/ ~files.xlsx.present
    \/ \E sh \in Sheets : files.xlsx.sheets[sh] # "ok"

DefectiveDatasetStopsStartup ==
    [][ (ThisStepIsMain /\ Defective(startup'.files))
           => (~startup'.result /\ ~startup'.server) ]_vars

(***************************************************************************)
(* C19: a stored track of no or one point gives no line                    *)
(* (streams_to_linestring returns None), no run of generate_map has the    *)
(* activity among the ones it intersects, and no link row of the activity  *)
(* exists, for LAU or for any NUTS level.                                  *)
(***************************************************************************)
StoredTrack(a) == json_loads(activities[a].streams_data[1]).latlng.data

Degenerate(a) ==
    /\ a \in DOMAIN activities
    /\ activities[a].streams_data # <<>>
    /\ Len(StoredTrack(a)) < 2

DegenerateTrackAttributesNothing ==
    \A a \in ActivityIds :
       Degenerate(a)
          => /\ streams_to_linestring(json_loads(activities[a].streams_data[1])) = None
             /\ \A i \in DOMAIN attr_log : a \notin Range(attr_log[i])
             /\ \A r \in LauIds : <<a, r>> \notin BagToSet(activity_lau)
             /\ \A c \in NutsCodes : <<a, c>> \notin BagToSet(activity_nuts)

\* generate_map has run over a store with a one-point track inside a LAU, a
\* track of no point, and a track that is linked.
DegenerateTrackAttributesNothingWitness ==
    /\ attr_log # <<>>
    /\ \E a \in ActivityIds : Degenerate(a) /\ Len(StoredTrack(a)) = 1
    /\ \E a \in ActivityIds : Degenerate(a) /\ Len(StoredTrack(a)) = 0
    /\ \E b \in ActivityIds : b \in Range(attr_log[Len(attr_log)])
                                 /\ \E r \in LauIds : <<b, r>> \in BagToSet(activity_lau)

(***************************************************************************)
(* C20: without a reset no step of sync or attribution deletes a link row, *)
(* at LAU or at NUTS level, so a region that has a link keeps one.         *)
(***************************************************************************)
RegionsWithLink(table) == {pair[2] : pair \in BagToSet(table)}

LinksNeverDeleted ==
    [][ /\ BagToSet(activity_lau) \subseteq BagToSet(activity_lau')
        /\ BagToSet(activity_nuts) \subseteq BagToSet(activity_nuts')
        /\ RegionsWithLink(activity_lau) \subseteq RegionsWithLink(activity_lau')
        /\ RegionsWithLink(activity_nuts) \subseteq RegionsWithLink(activity_nuts') ]_vars

\* Two runs of generate_map, the second over more activities than the
\* first, whose links are still there.
LinksNeverDeletedWitness ==
    /\ Len(attr_log) = 2
    /\ Range(attr_log[2]) \ Range(attr_log[1]) # {}
    /\ \E a \in Range(attr_log[1]) :
          /\ \E r \in LauIds : <<a, r>> \in BagToSet(activity_lau)
          /\ \E c \in NutsCodes : <<a, c>> \in BagToSet(activity_nuts)

(***************************************************************************)
(* C21: when a link write of an activity failed in a generate_map run (a   *)
(* LAU link insert, or process_nuts_regions raising while it had links of  *)
(* the activity to write), the activity has no link row afterwards, at LAU *)
(* or at any NUTS level.                                                   *)
(***************************************************************************)
LinkWriteFailedFor(a) ==
    \/ \E p \in faults.lau_failed : p[1] = a
    \/ /\ faults.nuts_raised_at # NoLevel
       /\ \E p \in faults.nuts_links : p[1] = a

HasNoLink(a) ==
    /\ \A p \in BagToSet(activity_lau) : p[1] # a
    /\ \A p \in BagToSet(activity_nuts) : p[1] # a

AttributionAllOrNothing ==
    \A a \in ActivityIds : LinkWriteFailedFor(a) => HasNoLink(a)

(***************************************************************************)
(* C22: when the track of one activity cannot be intersected in a          *)
(* generate_map run, every other activity of the run has its LAU and NUTS  *)
(* links written, and the failing activity has none.                       *)
(***************************************************************************)
LinksWrittenFor(b) ==
    /\ \A p \in faults.lau_links : p[1] = b => p \in BagToSet(activity_lau)
    /\ \A p \in faults.nuts_links : p[1] = b => p \in BagToSet(activity_nuts)

GeometryFailureSkipsOneActivity ==
    faults.geometry # {}
       => /\ \A b \in Range(faults.ids) \ faults.geometry : LinksWrittenFor(b)
          /\ \A a \in faults.geometry : HasNoLink(a)

(***************************************************************************)
(* C23: when the request for page k of the activity list fails, every      *)
(* activity of the pages 1..k-1 is in the activities table with the data   *)
(* of the listing, nothing stored before is gone, and the call returns the *)
(* number of activities it stored.                                         *)
(***************************************************************************)
\* The list the last sync paged through.
SyncList ==
    ActivityList(sync.at_strava,
                 IF sync.fetch_all THEN None ELSE get_last_activity_date(sync.initial))

\* The activities of the pages before page k.
PagesBefore(list, k) == UNION {Range(PageOf(list, page)) : page \in 1..(k - 1)}

PagesBeforeFailureStay ==
    sync.count > 0
       => /\ \A a \in PagesBefore(SyncList, sync.fail_at) :
                /\ a \in DOMAIN activities
                /\ activities[a].start_date = StravaData[a].start_date
          /\ DOMAIN sync.initial \subseteq DOMAIN activities
          /\ sync.total_stored = Cardinality(PagesBefore(SyncList, sync.fail_at))

\* The request for page 2 or a later one was made and failed, with
\* activities still to come.
PagesBeforeFailureStayWitness ==
    /\ sync.count > 0
    /\ sync.fail_at > 1
    /\ sync.total_stored > 0
    /\ sync.total_stored < Len(SyncList)
    /\ PagesBefore(SyncList, sync.fail_at) \subseteq DOMAIN activities

(***************************************************************************)
(* C24, as claimed: a streams request answered with a 401 leads to exactly *)
(* one refresh and exactly one more request; when that one fails too the   *)
(* request has failed for good, and the activity is dealt with (marked)    *)
(* so that the loop goes on.                                               *)
(***************************************************************************)
LastHandled ==
    /\ auth.activity_id \in DOMAIN activities
    /\ activities[auth.activity_id].streams_fetched = 1

RefreshOnceRetryOnce ==
    (auth.count > 0 /\ auth.first = "unauthorized")
       => /\ auth.refreshes = 1
          /\ auth.requests = 2
          /\ auth.second # "ok" => ~auth.got_streams
          /\ LastHandled

(***************************************************************************)
(* C24, amended: on a 401 the refresh is attempted exactly once; when it   *)
(* succeeds the request is repeated exactly once, and when it raises the   *)
(* request is not repeated and has failed. A request not answered with a   *)
(* 401 is made once, without a refresh. In each case the activity is dealt *)
(* with, so the loop goes on.                                              *)
(***************************************************************************)
RefreshOnceRetryOnceIfRefreshed ==
    auth.count > 0
       => /\ auth.first = "unauthorized"
               => /\ auth.refreshes = 1
                  /\ auth.refresh_ok => auth.requests = 2
                  /\ ~auth.refresh_ok => (auth.requests = 1 /\ ~auth.got_streams)
                  /\ (auth.refresh_ok /\ auth.second # "ok") => ~auth.got_streams
          /\ auth.first # "unauthorized"
               => (auth.refreshes = 0 /\ auth.requests = 1)
          /\ LastHandled

\* A request that got a 401 twice, after an earlier activity whose request
\* had failed as well.
RefreshOnceRetryOnceIfRefreshedWitness ==
    /\ auth.count >= 2
    /\ auth.first = "unauthorized" /\ auth.refresh_ok /\ auth.second = "unauthorized"
    /\ auth.requests = 2
    /\ \E b \in DOMAIN activities :
          b # auth.activity_id /\ FetchedNoTrack(activities[b])

TrackOnlyWhenFetchedWithTrack ==
    \A a \in DOMAIN activities :
       activities[a].streams_data # <<>> => FetchedWithTrack(activities[a])

(***************************************************************************)
(* C27: every started job thread ends, and is_processing is False when it  *)
(* does, whether the job finished or a phase raised; the except clause     *)
(* leaves stage 'Error' and the exception text as message; with no job     *)
(* running the flag is down, so the next request is accepted.              *)
(***************************************************************************)
Started(t) == threads[t].pc \notin {"none", "dead"}

ThreadEndsWithFlagDown ==
    [][ \A t \in ThreadIds :
          /\ (Started(t) /\ threads'[t] = Dead)
                => ~processing_status'["is_processing"]
          /\ (At(t, "except") /\ threads'[t] # threads[t])
                => /\ processing_status'.stage = "Error"
                   /\ processing_status'.message = "str(e)" ]_vars

JobClearsBusyFlag ==
    /\ ThreadEndsWithFlagDown
    /\ \A t \in ThreadIds : Started(t) ~> (threads[t] = Dead)
    /\ [](Idle => ~processing_status["is_processing"])

\* The first job raised and has ended, and the request after it was accepted.
JobClearsBusyFlagWitness ==
    /\ threads[1] = Dead
    /\ processing_status.stage = "Error"
    /\ ~processing_status["is_processing"]
    /\ threads[2].pc = "begin"
    /\ http.status = 200

(***************************************************************************)
(* C28: every row of activity_lau and of activity_nuts refers to an        *)
(* activity that is in the activities table, in every state of the web     *)
(* jobs (syncs and both resets); after clear_all_data this means that      *)
(* both link tables are empty.                                             *)
(***************************************************************************)
LinksReferToActivities ==
    /\ \A row \in Rows(activity_lau) : row[1] \in DOMAIN activities
    /\ \A row \in Rows(activity_nuts) : row[1] \in DOMAIN activities

(***************************************************************************)
(* C29: for every classification and every country filter (and none),      *)
(* get_total_regions_count answers visited <= total, and without a filter  *)
(* visited is the number of regions the visited-regions query of that      *)
(* classification returns.                                                 *)
(***************************************************************************)
RegionCountsConsistent ==
    /\ \A country_code \in Countries \cup {NoCountry} :
          LET counts == get_total_regions_count(country_code)
          IN  /\ counts.lau.visited <= counts.lau.total
              /\ \A level \in Levels :
                    counts.nuts[level].visited <= counts.nuts[level].total
    /\ LET counts == get_total_regions_count(NoCountry)
       IN  /\ counts.lau.visited = Len(get_all_lau_regions)
           /\ \A level \in Levels :
                 counts.nuts[level].visited = Len(get_nuts_regions_by_level(level))

(***************************************************************************)
(* C30: fetch_and_process_parallel returns; when it has returned the       *)
(* queue is empty, the consumer has ended, and the activities the consumer *)
(* handled (track stored or marked as without track) are the activities    *)
(* the producer put on the queue, each once and in that order, also when   *)
(* a page request failed.                                                  *)
(***************************************************************************)
ParallelReturned == sync.count > 0 /\ producer.pc = "done"

EveryQueuedHandledOnce ==
    /\ (~SyncIdle) ~> ParallelReturned
    /\ [](ParallelReturned =>
            /\ activity_queue = <<>>
            /\ consumer = "ended"
            /\ sync.handled = sync.enqueued
            /\ \A i \in DOMAIN sync.enqueued :
                  activities[sync.enqueued[i]].streams_fetched = 1)

(***************************************************************************)
(* C30, amended: fetch_and_process_parallel returns; when it has returned  *)
(* the queue is empty, the consumer has ended, and every activity the      *)
(* producer put on the queue was taken off it exactly once: it was either  *)
(* handled (track stored or marked as without track) or skipped because    *)
(* handling it raised; a skipped activity that was new in this call is     *)
(* left as not fetched.                                                    *)
(***************************************************************************)
EveryQueuedTakenOnce ==
    /\ (~SyncIdle) ~> ParallelReturned
    /\ [](ParallelReturned =>
            /\ activity_queue = <<>>
            /\ consumer = "ended"
            /\ Len(sync.handled) + Len(sync.dropped) = Len(sync.enqueued)
            /\ Range(sync.handled) \cup Range(sync.dropped) = Range(sync.enqueued)
            /\ Range(sync.handled) \cap Range(sync.dropped) = {}
            /\ \A a \in Range(sync.handled) : activities[a].streams_fetched = 1
            /\ \A a \in Range(sync.dropped) :
                  a \notin DOMAIN sync.initial => NotFetched(activities[a]))

\* The producer stopped on a failed page request after two activities; the
\* consumer handled one of them and skipped the other.
EveryQueuedTakenOnceWitness ==
    /\ ParallelReturned
    /\ sync.fail_at # NoFailure
    /\ sync.handled # <<>>
    /\ sync.dropped # <<>>

====
